---- MODULE Spec2Model ----
(***************************************************************************)
(* A model of the provider adapters of edenai_apis: one client issues one  *)
(* adapter call at a time; the vendor's replies are chosen                 *)
(* nondeterministically; every handler is translated from its Python code  *)
(* and maps the replies onto a returned value or a raised exception.       *)
(***************************************************************************)
EXTENDS Integers, Sequences, FiniteSets, TLC

\* op, args: the adapter call in progress or last finished, and its arguments.
\* sent: the HTTP requests the call has issued, in order, and the
\*   response.close() of a stream generator.
\* replies: the vendor replies the call holds in its local variables.
\* result: what the call returned or raised.
\* webhook: the entries stored at the webhook site, newest last.
\* uuids: the job ids uuid.uuid4() has produced so far.
\* launched: the job ids launch_job has handed to its caller, each with the
\* vendor reply that launch obtained.
\* openai_api_key: the module attribute openai.api_key.
\* instances: the adapter objects built so far and their attributes.
\* chunks: what the stream generator of the call has yielded to its consumer.
VARIABLES op, args, sent, replies, result, chunks, webhook, uuids, launched,
          openai_api_key, instances

vars == <<op, args, sent, replies, result, chunks, webhook, uuids, launched,
          openai_api_key, instances>>

\* The state of the async jobs, and the state of the Python process.
async == <<webhook, uuids, launched>>

process == <<openai_api_key, instances>>

(***************************************************************************)
(* Python values.  A value that may be None, a string, a number, a list or *)
(* a dict is tagged with its type, so that None and the string "None" are  *)
(* different values.                                                       *)
(***************************************************************************)
PyNone == [py |-> "None"]

PyStr(s) == [py |-> "str", v |-> s]

PyInt(n) == [py |-> "int", v |-> n]

PyDict(f) == [py |-> "dict", v |-> f]

PyList(s) == [py |-> "list", v |-> s]

\* The empty dict {}: a function with no key.
EmptyDict == PyDict(<<>>)

\* The body of an HTTP reply that is not JSON: response.json() raises on it.
NotJson == [py |-> "NotJson"]

\* key in d
HasKey(d, key) == d.py = "dict" /\ key \in DOMAIN d.v

\* d.get(key, default)
DictGet(d, key, default) == IF key \in DOMAIN d.v THEN d.v[key] ELSE default

\* str(x) of a string or of None
str(x) == IF x = PyNone THEN PyStr("None") ELSE x

\* Python truthiness of None, str, list, dict
Truthy(x) ==
    CASE x.py = "None" -> FALSE
      [] x.py = "str" -> x.v # ""
      [] x.py = "list" -> x.v # <<>>
      [] x.py = "dict" -> DOMAIN x.v # {}
      [] OTHER -> TRUE

(***************************************************************************)
(* Outcomes of a call.                                                     *)
(***************************************************************************)
Return(v) == [kind |-> "return", value |-> v]

Raise(exc, message, code) ==
    [kind |-> "raise", exc |-> exc, message |-> message, code |-> code]

ProviderException(message, code) == Raise("ProviderException", message, code)

\* An HTTP reply of a vendor; body is what response.json() parses, or NotJson.
Response(status_code, body) ==
    [status_code |-> status_code,
     \* response.text: only whether it is JSON is kept of the raw body
     text |-> IF body = NotJson THEN "<html>not json</html>" ELSE "json text",
     body |-> body]

\* No call is in progress.
Idle == result.kind # "running"

(***************************************************************************)
(* Base64Api                                                               *)
(***************************************************************************)
\* The try block of _get_response.
_get_response_try(response) ==
    IF response.body = NotJson
    THEN Raise("JSONDecodeError", PyStr(response.text), PyNone)
    ELSE IF response.status_code >= 400
         THEN IF HasKey(response.body, "message")
              THEN ProviderException(response.body.v["message"],
                                     PyInt(response.status_code))
              ELSE IF response.body.py = "dict"
                   THEN Raise("KeyError", PyStr("message"), PyNone)
                   ELSE Raise("TypeError", PyStr("message"), PyNone)
         ELSE Return(response.body)

\* _get_response without its except clause: the exceptions of the try block
\* escape as they are.
_get_response_unwrapped(response) == _get_response_try(response)

\* except Exception: every exception of the try block, the ProviderException
\* it raised itself included, is replaced.
_get_response(response) ==
    LET r == _get_response_try(response)
    IN  IF r.kind = "raise"
        THEN ProviderException(PyStr(response.text), PyInt(response.status_code))
        ELSE r


\* The files of the local file system, and those a caller may name.
ExistingFiles == {"invoice.pdf"}

Files == ExistingFiles \cup {"fakefile.txt"}

\* open(file, "rb") raises FileNotFoundError for a file that does not exist.
OpenFails(file) == file \notin ExistingFiles

FileNotFoundError(file) == Raise("FileNotFoundError", PyStr(file), PyNone)

\* The status codes a vendor answers with.
HttpStatus == {200, 201, 400, 404, 500}

\* A vendor field as base64.ai sends it: {"value": ..., "confidence": ...},
\* or the same without "value".
FieldShapes(v) ==
    {PyDict([value |-> PyStr(v), confidence |-> PyStr("0.9")]),
     PyDict([confidence |-> PyStr("0.9")])}

\* All dicts over the keys of K whose value for key k is in shapes[k].
DictsOver(K, shapes) ==
    UNION { { PyDict(f) : f \in { g \in [S -> UNION {shapes[k] : k \in K}] :
                                     \A k \in S : g[k] \in shapes[k] } }
            : S \in SUBSET K }

(***************************************************************************)
(* Base64Api: receipt and invoice parsing.  The record built here holds    *)
(* the standardized fields the code computes itself; the numbers and dates *)
(* it routes through utils.conversion are not part of the record.          *)
(***************************************************************************)
\* The vendor fields _format_receipt_document_data reads with
\* fields.get(key, default_dict)["value"].
ReceiptKeys ==
    {"receiptNo", "total", "date", "time", "subtotal", "shipTo", "companyName",
     "addressBlock", "currency", "cardNumber", "cardType", "tax",
     "paymentCode", "host", "paymentId"}

\* fields.get(key, default_dict)["value"], for a key that does not raise:
\* the defaultdict answers None for an absent field.
ReceiptValue(fields, key) ==
    IF HasKey(fields, key) THEN fields.v[key].v["value"] ELSE PyNone

_format_receipt_document_data(data) ==
    IF data.py # "list" \/ data.v = <<>>
    THEN Raise(IF data.py = "dict" THEN "KeyError" ELSE
               IF data.py = "list" THEN "IndexError" ELSE "TypeError",
               PyStr("0"), PyNone)
    ELSE LET fields == DictGet(data.v[1], "fields", PyList(<<>>))
         IN  IF fields.py # "dict"
             THEN \* _extract_item_lignes: data.items() of a list
                  Raise("AttributeError", PyStr("items"), PyNone)
             ELSE IF \E key \in ReceiptKeys :
                        HasKey(fields, key) /\ ~HasKey(fields.v[key], "value")
                  THEN Raise("KeyError", PyStr("value"), PyNone)
                  ELSE Return([extracted_data |-> <<[
                         invoice_number |-> ReceiptValue(fields, "receiptNo"),
                         currency |-> ReceiptValue(fields, "currency"),
                         merchant_name |-> ReceiptValue(fields, "companyName"),
                         merchant_address |-> ReceiptValue(fields, "addressBlock"),
                         customer_name |-> ReceiptValue(fields, "shipTo"),
                         card_number |-> ReceiptValue(fields, "cardNumber"),
                         card_type |-> ReceiptValue(fields, "cardType"),
                         time |-> str(ReceiptValue(fields, "time")),
                         payment_code |-> ReceiptValue(fields, "paymentCode"),
                         host |-> ReceiptValue(fields, "host"),
                         payment_id |-> ReceiptValue(fields, "paymentId")]>>])

\* fields.get(key, default_dict).get("value")
InvoiceValue(fields, key) ==
    IF HasKey(fields, key) THEN DictGet(fields.v[key], "value", PyNone) ELSE PyNone

_format_invoice_document_data(data) ==
    IF data.py # "list" \/ data.v = <<>>
    THEN Raise(IF data.py = "dict" THEN "KeyError" ELSE
               IF data.py = "list" THEN "IndexError" ELSE "TypeError",
               PyStr("0"), PyNone)
    ELSE LET fields == DictGet(data.v[1], "fields", PyList(<<>>))
         IN  IF fields.py # "dict"
             THEN Raise("AttributeError", PyStr("items"), PyNone)
             ELSE Return([extracted_data |-> <<[
                    merchant_name |-> InvoiceValue(fields, "companyName"),
                    merchant_address |-> InvoiceValue(fields, "from"),
                    customer_name |-> InvoiceValue(fields, "billTo"),
                    customer_address |-> InvoiceValue(fields, "address"),
                    customer_mailing_address |-> InvoiceValue(fields, "address"),
                    customer_billing_address |-> InvoiceValue(fields, "billTo"),
                    customer_shipping_address |-> InvoiceValue(fields, "shipTo"),
                    customer_remittance_address |-> InvoiceValue(fields, "soldTo"),
                    invoice_number |-> InvoiceValue(fields, "invoiceNumber"),
                    payment_term |-> InvoiceValue(fields, "paymentTerms"),
                    purchase_order |-> InvoiceValue(fields, "purchaseOrder"),
                    iban |-> InvoiceValue(fields, "iban"),
                    account_number |-> InvoiceValue(fields, "accountNumber"),
                    currency |-> InvoiceValue(fields, "currency")]>>])

\* _send_ocr_document after the file was read: the reply is the parsed body
\* of a 200, a ProviderException otherwise.
_send_ocr_document(response) ==
    IF response.status_code # 200
    THEN ProviderException(PyStr(response.text), PyInt(response.status_code))
    ELSE IF response.body = NotJson
         THEN Raise("JSONDecodeError", PyStr(response.text), PyNone)
         ELSE Return(response.body)

ResponseType(original_response, standardized_response) ==
    [type |-> "ResponseType",
     original_response |-> original_response,
     standardized_response |-> standardized_response]

\* _ocr_finance_document
_ocr_finance_document(response, document_type) ==
    LET original_response == _send_ocr_document(response)
    IN  IF original_response.kind = "raise"
        THEN original_response
        ELSE LET standardized_response ==
                   IF document_type = "receipt"
                   THEN _format_receipt_document_data(original_response.value)
                   ELSE _format_invoice_document_data(original_response.value)
             IN  IF standardized_response.kind = "raise"
                 THEN standardized_response
                 ELSE Return(ResponseType(original_response.value,
                                          standardized_response.value))

(***************************************************************************)
(* Base64Api.ocr__identity_parser.  Of the standardized item the record    *)
(* holds the fields the code reads itself; the dates and the country,      *)
(* which go through format_date and get_info_country, and the given names  *)
(* are not part of it.                                                     *)
(***************************************************************************)
\* document["fields"].get(key, {}).get("value")
IdentityValue(document, key) ==
    LET fields == document.v["fields"]
    IN  IF HasKey(fields, key) THEN DictGet(fields.v[key], "value", PyNone) ELSE PyNone

InfosIdentityParserDataClass(document) ==
    [document_type |-> IdentityValue(document, "documentType"),
     last_name |-> IdentityValue(document, "familyName"),
     document_id |-> IdentityValue(document, "documentNumber"),
     age |-> str(IdentityValue(document, "age")),
     nationality |-> IdentityValue(document, "nationality"),
     issuing_state |-> IdentityValue(document, "issuingState"),
     gender |-> IdentityValue(document, "sex"),
     address |-> IdentityValue(document, "address"),
     birth_place |-> PyNone]

\* ocr__identity_parser once the file was read and the request answered.
ocr__identity_parser(response) ==
    LET original_response == _get_response(response)
    IN  IF original_response.kind = "raise"
        THEN original_response
        ELSE LET docs == original_response.value
             IN  IF docs.py = "None"
                 THEN Raise("TypeError", PyStr("not iterable"), PyNone)
                 ELSE IF docs.py = "dict"
                 THEN \* the loop runs over the keys, which are strings
                      IF DOMAIN docs.v = {}
                      THEN Return(ResponseType(docs, [extracted_data |-> <<>>]))
                      ELSE Raise("TypeError", PyStr("string indices"), PyNone)
                 ELSE IF \E i \in DOMAIN docs.v :
                            ~HasKey(docs.v[i], "features") \/ ~HasKey(docs.v[i], "fields")
                 THEN Raise("KeyError", PyStr("features"), PyNone)
                 ELSE Return(ResponseType(docs,
                        [extracted_data |->
                            [i \in DOMAIN docs.v |->
                                InfosIdentityParserDataClass(docs.v[i])]]))

(***************************************************************************)
(* Base64Api: document anonymization, an async job kept at the webhook.    *)
(***************************************************************************)
\* The redacted documents of the vendor: a data URL, or a text without the
\* ";base64," marker.
DataUrl == "data:image/png;base64,QUJD"

\* redacted_document.split(";base64,")
SplitBase64(s) == IF s = DataUrl THEN <<"data:image/png", "QUJD">> ELSE <<s>>

\* The entry stored under one key for every job.
WebhookContent_one_key(job_id, original_response) ==
    [job_id |-> 1, original_response |-> original_response]

\* json.dumps({job_id: original_response}): the text stored at the webhook.
\* It is kept as the pair it encodes.
WebhookContent(job_id, original_response) ==
    [job_id |-> job_id, original_response |-> original_response]

\* provider_job_id in response["content"]: the ids have one length, so one
\* occurs in the text only as the key it was stored under.
Mentions(content, provider_job_id) == content.job_id = provider_job_id

\* json.loads(content).get(provider_job_id, None)
LoadsGet(content, provider_job_id) ==
    IF content.job_id = provider_job_id THEN content.original_response ELSE PyNone

\* check_webhook_result: (None, status) when the site answers an error or
\* holds nothing, the stored entries otherwise.
check_webhook_result(entries, status) ==
    IF status # 200 \/ entries = <<>>
    THEN [data |-> PyNone, status |-> status]
    ELSE [data |-> PyList([i \in DOMAIN entries |-> [content |-> entries[i]]]),
          status |-> status]

AsyncPendingResponseType(provider_job_id) ==
    [type |-> "AsyncPendingResponseType", provider_job_id |-> provider_job_id]

AsyncResponseType(original_response, standardized_response, provider_job_id) ==
    [type |-> "AsyncResponseType",
     original_response |-> original_response,
     standardized_response |-> standardized_response,
     provider_job_id |-> provider_job_id]

\* The first entry of the list whose content mentions the job id: next(filter)
FirstMention(data, provider_job_id) ==
    LET hits == { i \in DOMAIN data.v : Mentions(data.v[i].content, provider_job_id) }
    IN  IF hits = {} THEN PyNone
        ELSE PyDict(data.v[CHOOSE i \in hits : \A j \in hits : i <= j])

ocr__anonymization_async__get_job_result(provider_job_id, entries, status) ==
    LET checked == check_webhook_result(entries, status)
        wehbook_result == checked.data
        response_status == checked.status
        result_object ==
            IF Truthy(wehbook_result)
            THEN FirstMention(wehbook_result, provider_job_id)
            ELSE PyNone
    IN  IF response_status # 200
        THEN ProviderException(wehbook_result, PyInt(response_status))
        ELSE IF ~Truthy(result_object)
        THEN ProviderException(PyStr("Provider returned an empty response"), PyNone)
        ELSE LET original_response ==
                     LoadsGet(result_object.v.content, provider_job_id)
             IN  IF original_response = PyNone
                 THEN Return(AsyncPendingResponseType(provider_job_id))
                 ELSE IF original_response.py # "list"
                 THEN Raise("KeyError", PyStr("0"), PyNone)
                 ELSE IF original_response.v = <<>>
                 THEN Raise("IndexError", PyStr("0"), PyNone)
                 ELSE LET redacted_document ==
                            DictGet(original_response.v[1], "redactedDocument", PyNone)
                      IN  IF redacted_document = PyNone
                          THEN Raise("AttributeError", PyStr("split"), PyNone)
                          ELSE IF Len(SplitBase64(redacted_document.v)) < 2
                          THEN Raise("IndexError", PyStr("1"), PyNone)
                          ELSE Return(AsyncResponseType(
                                 original_response,
                                 [document |-> SplitBase64(redacted_document.v)[2],
                                  document_url |-> "s3-url"],
                                 provider_job_id))

(***************************************************************************)
(* The replies base64.ai may send.                                         *)
(***************************************************************************)
ErrorBody == PyDict([message |-> PyStr("vendor error")])

OtherBody == PyDict([detail |-> PyStr("no message key")])

ReceiptFieldSets ==
    DictsOver({"receiptNo", "time", "companyName"},
              [k \in {"receiptNo", "time", "companyName"} |-> FieldShapes("v")])

InvoiceFieldSets ==
    DictsOver({"invoiceNumber", "companyName"},
              [k \in {"invoiceNumber", "companyName"} |-> FieldShapes("v")])

IdentityFieldSets ==
    DictsOver({"age", "familyName"},
              [k \in {"age", "familyName"} |-> FieldShapes("v")])

FinanceBodies(fieldSets) ==
    {NotJson, ErrorBody, PyList(<<>>), PyList(<<EmptyDict>>)}
        \cup { PyList(<<PyDict([fields |-> f])>>) : f \in fieldSets }

IdentityBodies ==
    {NotJson, ErrorBody, OtherBody, PyNone, PyList(<<>>), PyList(<<EmptyDict>>)}
        \cup { PyList(<<PyDict([features |-> EmptyDict, fields |-> f])>>) :
                 f \in IdentityFieldSets }

AnonymizationBodies ==
    {NotJson, ErrorBody, PyNone, PyList(<<EmptyDict>>),
     PyList(<<PyDict([redactedDocument |-> PyStr(DataUrl)])>>),
     PyList(<<PyDict([redactedDocument |-> PyStr("QUJD")])>>)}

Responses(bodies) == { Response(st, b) : st \in HttpStatus, b \in bodies }

(***************************************************************************)
(* The calls.  A finished call leaves its name, arguments, requests,       *)
(* replies and outcome in the state.                                       *)
(***************************************************************************)
Call(o, a, s, r, res) ==
    /\ Idle
    /\ op' = o
    /\ args' = a
    /\ sent' = s
    /\ replies' = r
    /\ result' = res
    /\ chunks' = <<>>

\* Base64Api._get_response applied to a reply.
Base64GetResponse ==
    /\ \E response \in Responses(IdentityBodies) :
          Call("Base64Api._get_response", <<>>, <<>>, <<response>>,
               _get_response(response))
    /\ UNCHANGED <<async, process>>

\* Base64Api.ocr__receipt_parser
Base64ReceiptParser ==
    /\ \E file \in Files :
          IF OpenFails(file)
          THEN Call("Base64Api.ocr__receipt_parser", [file |-> file], <<>>, <<>>,
                    FileNotFoundError(file))
          ELSE \E response \in Responses(FinanceBodies(ReceiptFieldSets)) :
                  Call("Base64Api.ocr__receipt_parser", [file |-> file],
                       <<"POST base64.ai/api/scan">>, <<response>>,
                       _ocr_finance_document(response, "receipt"))
    /\ UNCHANGED <<async, process>>

\* Base64Api.ocr__invoice_parser
Base64InvoiceParser ==
    /\ \E file \in Files :
          IF OpenFails(file)
          THEN Call("Base64Api.ocr__invoice_parser", [file |-> file], <<>>, <<>>,
                    FileNotFoundError(file))
          ELSE \E response \in Responses(FinanceBodies(InvoiceFieldSets)) :
                  Call("Base64Api.ocr__invoice_parser", [file |-> file],
                       <<"POST base64.ai/api/scan">>, <<response>>,
                       _ocr_finance_document(response, "invoice"))
    /\ UNCHANGED <<async, process>>

\* Base64Api.ocr__identity_parser
Base64IdentityParser ==
    /\ \E file \in Files :
          IF OpenFails(file)
          THEN Call("Base64Api.ocr__identity_parser", [file |-> file], <<>>, <<>>,
                    FileNotFoundError(file))
          ELSE \E response \in Responses(IdentityBodies) :
                  Call("Base64Api.ocr__identity_parser", [file |-> file],
                       <<"POST base64.ai/api/scan">>, <<response>>,
                       ocr__identity_parser(response))
    /\ UNCHANGED <<async, process>>

\* The jobs one run launches at most.
MaxJobs == 2

JobIds == 1..MaxJobs

AsyncLaunchJobResponseType(provider_job_id) ==
    [type |-> "AsyncLaunchJobResponseType", provider_job_id |-> provider_job_id]

\* Base64Api.ocr__anonymization_async__launch_job.  The reply of the webhook
\* site to the storing request is not looked at.
Base64LaunchJob ==
    /\ \E file \in Files :
          IF OpenFails(file)
          THEN /\ Call("Base64Api.ocr__anonymization_async__launch_job",
                       [file |-> file], <<>>, <<>>, FileNotFoundError(file))
               /\ UNCHANGED async
          ELSE \E response \in Responses(AnonymizationBodies) :
                 LET original_response == _get_response(response)
                 IN  IF original_response.kind = "raise"
                     THEN /\ Call("Base64Api.ocr__anonymization_async__launch_job",
                                  [file |-> file], <<"POST base64.ai/api/scan">>,
                                  <<response>>, original_response)
                          /\ UNCHANGED async
                     ELSE \E job_id \in JobIds \ uuids,
                             webhook_response \in Responses({EmptyDict}) :
                            /\ uuids' = uuids \cup {job_id}
                            /\ webhook' =
                                 \* the site keeps what it answers with success
                                 IF webhook_response.status_code < 400
                                 THEN Append(webhook,
                                        WebhookContent(job_id, original_response.value))
                                 ELSE webhook
                            /\ launched' = launched \cup
                                 {[job_id |-> job_id,
                                   original_response |-> original_response.value]}
                            /\ Call("Base64Api.ocr__anonymization_async__launch_job",
                                    [file |-> file],
                                    <<"POST base64.ai/api/scan", "POST webhook.site">>,
                                    <<response, webhook_response>>,
                                    Return(AsyncLaunchJobResponseType(job_id)))
    /\ UNCHANGED process

\* Base64Api.ocr__anonymization_async__get_job_result
Base64GetJobResult ==
    /\ \E provider_job_id \in JobIds, status \in HttpStatus :
          Call("Base64Api.ocr__anonymization_async__get_job_result",
               [provider_job_id |-> provider_job_id],
               <<"GET webhook.site">>,
               <<check_webhook_result(webhook, status)>>,
               ocr__anonymization_async__get_job_result(
                   provider_job_id, webhook, status))
    /\ UNCHANGED <<async, process>>

(***************************************************************************)
(* ReplicateApi.__get_response, stream=False: a launch POST, a first GET   *)
(* of the prediction, then one GET per turn of the polling loop.  Each     *)
(* action is one request and the code that follows it up to the next       *)
(* request, a return or a raise.                                           *)
(***************************************************************************)
\* The polls one call makes at most in the model.
MaxPolls == 3

\* A call in progress and the request it issues next.
Running(at) == [kind |-> "running", at |-> at]

\* ISO 8601 timestamps of the vendor and the seconds
\* datetime.fromisoformat reads from them.
IsoSeconds(t) == IF t = "2024-01-01T00:00:00Z" THEN 0 ELSE 2

\* d with d[key] = value
DictSet(d, key, value) ==
    PyDict([k \in DOMAIN d.v \cup {key} |-> IF k = key THEN value ELSE d.v[k]])

\* __calculate_predict_time answering a dict of the metrics alone.
__calculate_predict_time_metrics_only(get_response) ==
    LET started_at == DictGet(get_response, "started_at", PyNone)
        completed_at == DictGet(get_response, "completed_at", PyNone)
    IN  IF started_at = PyNone \/ completed_at = PyNone
        THEN Raise("AttributeError", PyStr("replace"), PyNone)
        ELSE Return(PyDict([metrics |->
                 PyDict([predict_time |->
                     PyInt(IsoSeconds(completed_at.v) - IsoSeconds(started_at.v))])]))

\* __calculate_predict_time: the dict with its "metrics" entry set, or the
\* exception of None.replace.
__calculate_predict_time(get_response) ==
    LET started_at == DictGet(get_response, "started_at", PyNone)
        completed_at == DictGet(get_response, "completed_at", PyNone)
    IN  IF started_at = PyNone \/ completed_at = PyNone
        THEN Raise("AttributeError", PyStr("replace"), PyNone)
        ELSE Return(DictSet(get_response, "metrics",
                 PyDict([predict_time |->
                     PyInt(IsoSeconds(completed_at.v) - IsoSeconds(started_at.v))])))

\* The replies of api.replicate.com.
LaunchedBody ==
    PyDict([urls |-> PyDict([get |-> PyStr("predictions/p1"),
                             stream |-> PyStr("stream/p1")])])

DetailBody == PyDict([detail |-> PyStr("vendor detail")])

Prediction(status) ==
    PyDict([status |-> PyStr(status), started_at |-> PyStr("2024-01-01T00:00:00Z")])

Succeeded ==
    DictSet(Prediction("succeeded"), "completed_at", PyStr("2024-01-01T00:00:02Z"))

ReplicateGetBodies ==
    {NotJson, DetailBody, Prediction("processing"), Prediction("failed"),
     Prediction("canceled"), Prediction("succeeded"), Succeeded,
     DictSet(Succeeded, "metrics", PyDict([predict_time |-> PyInt(7)]))}

\* After a GET whose body is response_dict: leave the loop or poll again.
ReplicateAfterGet(response_dict) ==
    IF ~HasKey(response_dict, "status")
    THEN Raise("KeyError", PyStr("status"), PyNone)
    ELSE IF response_dict.v["status"] # PyStr("succeeded")
         THEN Running("poll")
         ELSE \* the loop has seen "succeeded": the end of __get_response
              __calculate_predict_time(response_dict)

\* An unstarted generator: the value a streaming call hands to its caller.
Generator(function) == [type |-> "generator", function |-> function]

\* The launch POST and the code up to the first GET, or up to the return of
\* the stream generator.
ReplicateLaunched(launch_job_response, stream) ==
    IF launch_job_response.body = NotJson
    THEN ProviderException(PyStr(launch_job_response.text),
                           PyInt(launch_job_response.status_code))
    ELSE IF launch_job_response.status_code # 201
    THEN ProviderException(DictGet(launch_job_response.body, "detail", PyNone),
                           PyInt(launch_job_response.status_code))
    ELSE IF ~HasKey(launch_job_response.body, "urls")
    THEN Raise("KeyError", PyStr("urls"), PyNone)
    ELSE IF stream
    THEN Return(Generator("ReplicateApi.__get_stream_response"))
    ELSE Running("get")

\* A first GET that does not look at a status code below 500.
ReplicateFirstGot_unchecked(response) ==
    IF response.status_code >= 500
    THEN ProviderException(PyStr("http.client.responses"), PyInt(response.status_code))
    ELSE IF response.body = NotJson
    THEN Raise("JSONDecodeError", PyStr(response.text), PyNone)
    ELSE ReplicateAfterGet(response.body)

\* The first GET: response.json() is called outside any try.
ReplicateFirstGot(response) ==
    IF response.status_code >= 500
    THEN ProviderException(PyStr("http.client.responses"), PyInt(response.status_code))
    ELSE IF response.body = NotJson
    THEN Raise("JSONDecodeError", PyStr(response.text), PyNone)
    ELSE IF response.status_code # 200
    THEN ProviderException(DictGet(response.body, "detail", PyNone),
                           PyInt(response.status_code))
    ELSE ReplicateAfterGet(response.body)

\* One turn of a while loop that asks again after a reply that is not JSON.
ReplicatePolled_retry(response) ==
    IF response.body = NotJson
    THEN Running("poll")
    ELSE IF response.status_code # 200
    THEN ProviderException(DictGet(response.body, "error", response.body),
                           PyInt(response.status_code))
    ELSE ReplicateAfterGet(response.body)

\* One turn of the while loop.
ReplicatePolled(response) ==
    IF response.body = NotJson
    THEN ProviderException(PyStr(response.text), PyInt(response.status_code))
    ELSE IF response.status_code # 200
    THEN ProviderException(DictGet(response.body, "error", response.body),
                           PyInt(response.status_code))
    ELSE ReplicateAfterGet(response.body)

ReplicateLaunch ==
    /\ \E launch_job_response \in Responses({NotJson, DetailBody, LaunchedBody}),
          stream \in BOOLEAN :
          Call("ReplicateApi.__get_response", [stream |-> stream],
               <<"POST predictions">>, <<launch_job_response>>,
               ReplicateLaunched(launch_job_response, stream))
    /\ UNCHANGED <<async, process>>

ReplicateFirstGet ==
    /\ op = "ReplicateApi.__get_response"
    /\ result = Running("get")
    /\ \E response \in Responses(ReplicateGetBodies) :
          /\ sent' = Append(sent, "GET prediction")
          /\ replies' = <<replies[1], response>>
          /\ result' = ReplicateFirstGot(response)
    /\ UNCHANGED <<op, args, chunks, async, process>>

\* The loop has no bound of its own: the requests past MaxPolls polls are
\* made and no longer counted in sent.
ReplicatePoll ==
    /\ op = "ReplicateApi.__get_response"
    /\ result = Running("poll")
    /\ \E response \in Responses(ReplicateGetBodies) :
          /\ sent' = IF Len(sent) < MaxPolls + 2
                     THEN Append(sent, "GET prediction")
                     ELSE sent
          /\ replies' = <<replies[1], response>>
          /\ result' = ReplicatePolled(response)
    /\ UNCHANGED <<op, args, chunks, async, process>>

(***************************************************************************)
(* GoogleTextApi._gemini_pro_generation                                    *)
(***************************************************************************)
\* One element of the streamed reply carrying the text t.
GeminiChunk(t) ==
    PyDict([candidates |-> PyList(<<
        PyDict([content |-> PyDict([parts |-> PyList(<<
            PyDict([text |-> PyStr(t)])>>)])])>>)])

\* An element of the streamed reply that reports an error.
GeminiError == PyDict([error |-> PyDict([message |-> PyStr("quota exceeded")])])

\* extract(original_response, [i, "candidates", 0, "content", "parts"]) and
\* extract(parts, [0, "text"], fallback=""): the text of element i, "" when
\* the path is not there.
GeminiText(element) ==
    IF /\ HasKey(element, "candidates")
       /\ element.v["candidates"].py = "list"
       /\ element.v["candidates"].v # <<>>
       /\ HasKey(element.v["candidates"].v[1], "content")
       /\ HasKey(element.v["candidates"].v[1].v["content"], "parts")
    THEN LET parts == element.v["candidates"].v[1].v["content"].v["parts"]
         IN  IF parts.py = "list" /\ parts.v # <<>> /\ HasKey(parts.v[1], "text")
             THEN parts.v[1].v["text"].v
             ELSE ""
    ELSE ""

\* generated_text after the elements 1..n of the list were read.
RECURSIVE GeminiGenerated(_, _)
GeminiGenerated(elements, n) ==
    IF n = 0 THEN ""
    ELSE GeminiGenerated(elements, n - 1) \o GeminiText(elements[n])

_gemini_pro_generation(response) ==
    IF response.body = NotJson
    THEN ProviderException(PyStr("Internal Server Error"), PyInt(500))
    ELSE LET original_response == response.body
         IN  IF original_response.py = "None"
             THEN Raise("TypeError", PyStr("len"), PyNone)
             ELSE IF original_response.py = "dict"
             THEN \* range(len(dict)), then dict[0]
                  IF DOMAIN original_response.v = {}
                  THEN Return(ResponseType(original_response,
                                           [generated_text |-> ""]))
                  ELSE Raise("KeyError", PyStr("0"), PyNone)
             ELSE IF \E i \in DOMAIN original_response.v :
                        HasKey(original_response.v[i], "error")
             THEN \* original_response["error"] of a list
                  Raise("TypeError", PyStr("list indices"), PyNone)
             ELSE Return(ResponseType(original_response,
                    [generated_text |->
                        GeminiGenerated(original_response.v,
                                        Len(original_response.v))]))

GeminiBodies ==
    {NotJson, GeminiError, PyList(<<>>), PyList(<<GeminiChunk("a")>>),
     PyList(<<GeminiChunk("a"), GeminiChunk("b")>>),
     PyList(<<GeminiChunk("a"), EmptyDict>>),
     PyList(<<GeminiError>>), PyList(<<GeminiChunk("a"), GeminiError>>)}

GoogleGeminiProGeneration ==
    /\ \E response \in Responses(GeminiBodies) :
          Call("GoogleTextApi._gemini_pro_generation", <<>>,
               <<"POST streamGenerateContent">>, <<response>>,
               _gemini_pro_generation(response))
    /\ UNCHANGED <<async, process>>

(***************************************************************************)
(* TenstorrentTextApi: the five text features share one shape.             *)
(***************************************************************************)
\* The feature and the keys of the reply it reads with response[key].
TenstorrentFeatures ==
    [text__keyword_extraction |-> {"items"},
     text__sentiment_analysis |-> {"confidence", "prediction"},
     text__question_answer |-> {"answer"},
     text__named_entity_recognition |-> {"items"},
     text__topic_extraction |-> {"items"}]

\* response.raise_for_status() raises HTTPError for a 4xx or 5xx.
raise_for_status(response) == response.status_code >= 400 /\ response.status_code < 600

\* check_for_errors
check_for_errors(response) ==
    IF HasKey(response, "message")
    THEN ProviderException(response.v["message"], PyNone)
    ELSE Return(response)

\* A feature call.  transport is TRUE when requests.post raised: the name
\* original_response was never bound when the handler reads it.
TenstorrentFeature(feature, transport, response) ==
    IF transport
    THEN Raise("UnboundLocalError", PyStr("original_response"), PyNone)
    ELSE IF raise_for_status(response)
    THEN ProviderException(PyStr(response.text), PyNone)
    ELSE IF response.body = NotJson
    THEN Raise("JSONDecodeError", PyStr(response.text), PyNone)
    ELSE LET checked == check_for_errors(response.body)
         IN  IF checked.kind = "raise" THEN checked
             ELSE IF response.body.py # "dict"
             THEN Raise("TypeError", PyStr("indices"), PyNone)
             ELSE IF ~(TenstorrentFeatures[feature] \subseteq DOMAIN response.body.v)
             THEN Raise("KeyError", PyStr("missing key"), PyNone)
             ELSE Return(ResponseType(response.body,
                    [k \in TenstorrentFeatures[feature] |-> response.body.v[k]]))

TenstorrentBodies ==
    {NotJson, ErrorBody, EmptyDict,
     PyDict([items |-> PyList(<<>>)]),
     PyDict([confidence |-> PyStr("0.9"), prediction |-> PyStr("Positive")]),
     PyDict([answer |-> PyStr("42")])}

TenstorrentCall ==
    /\ \E feature \in DOMAIN TenstorrentFeatures :
          \/ Call("TenstorrentTextApi." \o feature, <<>>, <<"POST predictions">>,
                  <<>>, TenstorrentFeature(feature, TRUE, Response(200, NotJson)))
          \/ \E response \in Responses(TenstorrentBodies) :
                Call("TenstorrentTextApi." \o feature, <<>>, <<"POST predictions">>,
                     <<response>>, TenstorrentFeature(feature, FALSE, response))
    /\ UNCHANGED <<async, process>>

(***************************************************************************)
(* LLMEngine                                                               *)
(***************************************************************************)
\* The texts a completion may carry as the content of its first choice; a
\* content of None is a completion without text.
Contents ==
    {PyStr("{\"items\": []}"), PyStr("{\"result\": \"short\"}"), PyStr("[1, 2]"),
     PyStr("Sorry, I cannot help"), PyStr(""), PyNone}

\* json.loads(content): the parsed value, or the exception it raises.
json_loads(content) ==
    CASE content = PyNone -> Raise("TypeError", PyStr("must be str"), PyNone)
      [] content = PyStr("{\"items\": []}") ->
            Return(PyDict([items |-> PyList(<<>>)]))
      [] content = PyStr("{\"result\": \"short\"}") ->
            Return(PyDict([result |-> PyStr("short")]))
      [] content = PyStr("[1, 2]") -> Return(PyList(<<PyInt(1), PyInt(2)>>))
      [] OTHER -> Raise("JSONDecodeError", content, PyNone)

\* The response classes and the fields each requires.
ResponseClasses ==
    [LogoDetectionDataClass |-> {"items"}, SummarizeDataClass |-> {"result"}]

\* response_class(**result)
Construct(response_class, parsed) ==
    IF parsed.py # "dict"
    THEN Raise("TypeError", PyStr("argument after ** must be a mapping"), PyNone)
    ELSE IF ~(ResponseClasses[response_class] \subseteq DOMAIN parsed.v)
    THEN Raise("ValidationError", PyStr(response_class), PyNone)
    ELSE Return([class |-> response_class, fields |-> parsed])

\* _execute_completion with an except clause that catches nothing.
_execute_completion_no_except(content, response_class) ==
    LET loaded == json_loads(content)
    IN  IF loaded.kind = "raise"
        THEN loaded
        ELSE LET standardized_response == Construct(response_class, loaded.value)
             IN  IF standardized_response.kind = "raise"
                 THEN standardized_response
                 ELSE Return(ResponseType(PyDict([content |-> content]),
                                          standardized_response.value))

\* _execute_completion on the completion whose first choice has this content.
_execute_completion(content, response_class) ==
    LET loaded == json_loads(content)
    IN  IF loaded.kind = "raise"
        THEN IF loaded.exc = "JSONDecodeError"
             THEN ProviderException(
                      PyStr("An error occurred while parsing the response."), PyNone)
             ELSE loaded
        ELSE LET standardized_response == Construct(response_class, loaded.value)
             IN  IF standardized_response.kind = "raise"
                 THEN standardized_response
                 ELSE Return(ResponseType(PyDict([content |-> content]),
                                          standardized_response.value))

LLMEngineExecuteCompletion ==
    /\ \E content \in Contents, response_class \in DOMAIN ResponseClasses :
          Call("LLMEngine._execute_completion", [response_class |-> response_class],
               <<"completion">>, <<content>>,
               _execute_completion(content, response_class))
    /\ UNCHANGED <<async, process>>

\* LLMEngine.logo_detection
LLMEngineLogoDetection ==
    /\ \E file \in Files :
          IF OpenFails(file)
          THEN Call("LLMEngine.logo_detection", [file |-> file], <<>>, <<>>,
                    FileNotFoundError(file))
          ELSE \E content \in Contents :
                  Call("LLMEngine.logo_detection", [file |-> file],
                       <<"completion">>, <<content>>,
                       _execute_completion(content, "LogoDetectionDataClass"))
    /\ UNCHANGED <<async, process>>

(***************************************************************************)
(* AnthropicApi                                                            *)
(***************************************************************************)
\* The bodies bedrock answers with.
AnthropicUsage(input_tokens, output_tokens) ==
    PyDict([input_tokens |-> PyInt(input_tokens),
            output_tokens |-> PyInt(output_tokens)])

AnthropicMessage(text, usage) ==
    PyDict([content |-> PyList(<<PyDict([text |-> PyStr(text)])>>),
            role |-> PyStr("assistant"),
            usage |-> usage])

AnthropicBodies ==
    { AnthropicMessage(t, AnthropicUsage(i, o)) :
        t \in {"hello", "bye"}, i \in {3, 5}, o \in {4} }
    \cup { AnthropicMessage("hello",
             DictSet(AnthropicUsage(3, 4), "total_tokens", PyInt(99))),
           PyDict([content |-> PyList(<<PyDict([text |-> PyStr("hello")])>>)]) }

\* original_response["usage"]["total_tokens"] = input_tokens + output_tokens
AnthropicTotalUsage(original_response) ==
    IF ~HasKey(original_response, "usage")
    THEN Raise("KeyError", PyStr("usage"), PyNone)
    ELSE LET usage == original_response.v["usage"]
         IN  Return(DictSet(original_response, "usage",
                 DictSet(usage, "total_tokens",
                     PyInt(usage.v["input_tokens"].v + usage.v["output_tokens"].v))))

StreamChat == [type |-> "StreamChat"]

\* text__chat: failed is TRUE when handle_amazon_call raised.
AnthropicTextChat(stream, failed, body) ==
    IF failed
    THEN ProviderException(PyStr("amazon call failed"), PyNone)
    ELSE IF stream
    THEN Return(ResponseType(PyNone, StreamChat))
    ELSE LET original_response == AnthropicTotalUsage(body)
         IN  IF original_response.kind = "raise"
             THEN original_response
             ELSE Return(ResponseType(original_response.value,
                    [generated_text |->
                        original_response.value.v["content"].v[1].v["text"]]))

\* text__summarize
AnthropicTextSummarize(failed, body) ==
    IF failed
    THEN ProviderException(PyStr("amazon call failed"), PyNone)
    ELSE LET original_response == AnthropicTotalUsage(body)
         IN  IF original_response.kind = "raise"
             THEN original_response
             ELSE Return(ResponseType(original_response.value,
                    [result |->
                        original_response.value.v["content"].v[1].v["text"]]))

\* multimodal__chat: with stream=True the value returned is a tuple of one
\* ResponseType.
AnthropicMultimodalChat(stream, failed, body) ==
    IF failed
    THEN ProviderException(PyStr("amazon call failed"), PyNone)
    ELSE IF stream
    THEN Return([type |-> "tuple",
                 items |-> <<ResponseType(PyNone, StreamChat)>>])
    ELSE Return(ResponseType(body,
                  [generated_text |-> body.v["content"].v[1].v["text"]]))

AnthropicCall ==
    /\ \E stream \in BOOLEAN, failed \in BOOLEAN, body \in AnthropicBodies :
          \/ Call("AnthropicApi.text__chat", [stream |-> stream],
                  <<"bedrock invoke_model">>,
                  IF failed \/ stream THEN <<>> ELSE <<body>>,
                  AnthropicTextChat(stream, failed, body))
          \/ Call("AnthropicApi.text__summarize", [stream |-> FALSE],
                  <<"bedrock invoke_model">>,
                  IF failed THEN <<>> ELSE <<body>>,
                  AnthropicTextSummarize(failed, body))
          \/ Call("AnthropicApi.multimodal__chat", [stream |-> stream],
                  <<"bedrock invoke_model">>,
                  IF failed \/ stream THEN <<>> ELSE <<body>>,
                  AnthropicMultimodalChat(stream, failed, body))
    /\ UNCHANGED <<async, process>>

(***************************************************************************)
(* TenstorrentTextApi.text__chat, LinkupSource, XAiTextApi                 *)
(***************************************************************************)
\* text__chat: failed is TRUE when client.chat.completions.create raised.
TenstorrentTextChat(stream, failed, generated_text) ==
    IF failed
    THEN ProviderException(PyStr("str(exc)"), PyNone)
    ELSE IF stream = FALSE
    THEN Return(ResponseType(PyDict([content |-> generated_text]),
                             [generated_text |-> generated_text]))
    ELSE Return(ResponseType(PyNone, StreamChat))

TenstorrentChat ==
    /\ \E stream \in BOOLEAN, failed \in BOOLEAN,
          generated_text \in {PyStr("hello"), PyNone} :
          Call("TenstorrentTextApi.text__chat", [stream |-> stream],
               <<"chat.completions.create">>,
               IF failed \/ stream THEN <<>> ELSE <<generated_text>>,
               TenstorrentTextChat(stream, failed, generated_text))
    /\ UNCHANGED <<async, process>>

\* LinkupSource.text__question_answer: the value of client.search is
\* returned as it is.
LinkupQuestionAnswer(failed, answer) ==
    IF failed
    THEN ProviderException(PyStr("Error during Linkup API call"), PyNone)
    ELSE Return(answer)

LinkupCall ==
    /\ \E failed \in BOOLEAN :
          Call("LinkupSource.text__question_answer", <<>>, <<"client.search">>,
               IF failed THEN <<>> ELSE <<[type |-> "LinkupSourcedAnswer"]>>,
               LinkupQuestionAnswer(failed, [type |-> "LinkupSourcedAnswer"]))
    /\ UNCHANGED <<async, process>>

\* XAiTextApi.text__prompt_optimization: its first statement calls
\* construct_prompt_optimization_instruction, a name the module neither
\* defines nor imports.
text__prompt_optimization ==
    Raise("NameError", PyStr("construct_prompt_optimization_instruction"), PyNone)

XAiPromptOptimization ==
    /\ Call("XAiTextApi.text__prompt_optimization", <<>>, <<>>, <<>>,
            text__prompt_optimization)
    /\ UNCHANGED <<async, process>>

(***************************************************************************)
(* Stream generators.  The consumer drives a generator with next(); the    *)
(* model takes one step per line the generator reads from                  *)
(* response.iter_lines(), and keeps the lines read so far in replies and   *)
(* what was yielded so far in chunks.                                      *)
(***************************************************************************)
\* The lines one stream carries at most.
MaxLines == 4

ChatStreamResponse(text, blocked) ==
    [type |-> "ChatStreamResponse", text |-> text, blocked |-> blocked]

\* The generator returned: the consumer's next() raises StopIteration.
StopIteration == Return([type |-> "StopIteration"])

\* The generator is suspended in its loop over the lines.
Reading(generator) ==
    /\ op = generator
    /\ result = Running("line")

\* The loop reads line, yields yielded and goes on as outcome says; closes
\* tells whether it calls response.close(), which is kept in sent.
StreamStep(line, yielded, outcome, closes) ==
    /\ Len(replies) < MaxLines
    /\ replies' = Append(replies, line)
    /\ chunks' = chunks \o yielded
    /\ result' = outcome
    /\ sent' = IF closes THEN Append(sent, "response.close()") ELSE sent
    /\ UNCHANGED <<op, args, async, process>>

\* The lines of the event stream of api.replicate.com: events, data lines,
\* an empty data line, a blank line, and a data line whose text holds the
\* words of the done event.
ReplicateLines ==
    {"event: output", "data: hello", "data: ", "event: error", "event: done",
     "data: say event: done", ""}

\* chunk.startswith(b"data: ")
startswith_data(chunk) ==
    chunk \in {"data: hello", "data: ", "data: say event: done"}

\* b"event: done" in chunk
contains_event_done(chunk) == chunk \in {"event: done", "data: say event: done"}

\* chunk.decode("utf-8").replace("data: ", "")
replace_data(chunk) ==
    CASE chunk = "data: hello" -> "hello"
      [] chunk = "data: " -> ""
      [] chunk = "data: say event: done" -> "say event: done"
      [] OTHER -> chunk

\* What one turn of the loop of __get_stream_response yields.
__get_stream_response_yield(last_chunk, chunk) ==
    IF contains_event_done(chunk)
    THEN <<>>
    ELSE IF last_chunk = "event: error" /\ startswith_data(chunk)
    THEN <<ChatStreamResponse("[ERROR]", TRUE)>>
    ELSE IF startswith_data(chunk)
    THEN IF last_chunk = "data: " /\ chunk = "data: "
         THEN <<ChatStreamResponse("\n", FALSE)>>
         ELSE <<ChatStreamResponse(replace_data(chunk), FALSE)>>
    ELSE <<>>

ReplicateStreamStart ==
    /\ Call("ReplicateApi.__get_stream_response", <<>>, <<"GET stream">>, <<>>,
            Running("line"))
    /\ UNCHANGED <<async, process>>

ReplicateStreamLine ==
    /\ Reading("ReplicateApi.__get_stream_response")
    /\ \E chunk \in ReplicateLines :
          \* last_chunk is "" before the first line
          StreamStep(chunk,
                     __get_stream_response_yield(
                         IF replies = <<>> THEN "" ELSE replies[Len(replies)],
                         chunk),
                     IF contains_event_done(chunk)
                     THEN StopIteration
                     ELSE Running("line"),
                     contains_event_done(chunk))

\* The vendor closes the connection: iter_lines() is exhausted.
ReplicateStreamEnd ==
    /\ Reading("ReplicateApi.__get_stream_response")
    /\ result' = StopIteration
    /\ UNCHANGED <<op, args, sent, replies, chunks, async, process>>

(***************************************************************************)
(* GoogleTextApi._gemini_chat_stream_generator                             *)
(***************************************************************************)
\* The lines of the SSE stream of streamGenerateContent, the JSON of a data
\* line being written without its quotes: a chunk with the text "hi", a data
\* line that is not JSON, a JSON data line without candidates, a chunk whose
\* text holds the words "data: ", and a blank line.
GeminiLines ==
    {"data: {candidates: [hi]}", "data: <html>", "data: {error: quota}",
     "data: {candidates: [data: x]}", ""}

\* raw_data.split("data: ")
split_data(raw_data) ==
    CASE raw_data = "data: {candidates: [hi]}" -> <<"", "{candidates: [hi]}">>
      [] raw_data = "data: <html>" -> <<"", "<html>">>
      [] raw_data = "data: {error: quota}" -> <<"", "{error: quota}">>
      [] raw_data = "data: {candidates: [data: x]}" ->
            <<"", "{candidates: [", "x]}">>
      [] OTHER -> <<raw_data>>

\* json.loads(content) followed by
\* content_json["candidates"][0]["content"]["parts"][0]["text"]
gemini_chunk_text(content) ==
    CASE content = "{candidates: [hi]}" -> Return("hi")
      [] content = "{error: quota}" ->
            Raise("KeyError", PyStr("candidates"), PyNone)
      [] OTHER -> Raise("JSONDecodeError", PyStr(content), PyNone)

\* One turn of the loop: what it yields, and how the generator goes on.
\* _, content = raw_data.split("data: ") is outside the try.
_gemini_chat_stream_generator(raw_data) ==
    IF Len(split_data(raw_data)) = 1
    THEN [yielded |-> <<>>, outcome |-> Running("line")]
    ELSE IF Len(split_data(raw_data)) # 2
    THEN [yielded |-> <<>>,
          outcome |-> Raise("ValueError", PyStr("too many values to unpack"), PyNone)]
    ELSE LET text == gemini_chunk_text(split_data(raw_data)[2])
         IN  IF text.kind = "raise"
             THEN \* except Exception as exc: return
                  [yielded |-> <<>>, outcome |-> StopIteration]
             ELSE [yielded |-> <<ChatStreamResponse(text.value, FALSE)>>,
                   outcome |-> Running("line")]

GeminiStreamStart ==
    /\ Call("GoogleTextApi._gemini_chat_stream_generator", <<>>, <<>>, <<>>,
            Running("line"))
    /\ UNCHANGED <<async, process>>

GeminiStreamLine ==
    /\ Reading("GoogleTextApi._gemini_chat_stream_generator")
    /\ \E resp \in GeminiLines :
          StreamStep(resp, _gemini_chat_stream_generator(resp).yielded,
                     _gemini_chat_stream_generator(resp).outcome, FALSE)

GeminiStreamEnd ==
    /\ Reading("GoogleTextApi._gemini_chat_stream_generator")
    /\ result' = StopIteration
    /\ UNCHANGED <<op, args, sent, replies, chunks, async, process>>

(***************************************************************************)
(* GoogleTextApi.__text_chat_stream_generator (PaLM).  The vendor streams  *)
(* a JSON array of objects; a line "," separates two objects.  The text of *)
(* an object after its opening brace is kept as one line.                  *)
(***************************************************************************)
\* The lines of the stream: the opening of the array and of its first
\* object, the opening of a later object, the rest of an object with
\* outputs, the rest of an object without, the separator, the closing.
PalmLines == {"[{", "{", "outputs: [...]}", "error: {...}}", ",", "]"}

\* bytes_data after the lines read: the lines since the last ",", with "[{"
\* taken as "{".
RECURSIVE bytes_data(_)
bytes_data(lines) ==
    IF lines = <<>> THEN <<>>
    ELSE LET raw == lines[Len(lines)]
             before == bytes_data(SubSeq(lines, 1, Len(lines) - 1))
         IN  IF raw = "," THEN <<>>
             ELSE IF raw = "[{" THEN Append(before, "{")
             ELSE Append(before, raw)

\* bytes_data.decode()[: len(bytes_data.decode()) - 1]: the text without its
\* last character; a piece that loses its closing brace is no JSON any more.
drop_last_character(data) ==
    IF data[Len(data)] \in {"{", "]"}
    THEN SubSeq(data, 1, Len(data) - 1)
    ELSE Append(SubSeq(data, 1, Len(data) - 1), "<cut>")

\* json.loads of the text and the two paths read from it.
palm_chunk(data) ==
    IF data = <<"{", "outputs: [...]}">>
    THEN Return(ChatStreamResponse("hi", FALSE))
    ELSE IF data = <<"{", "error: {...}}">>
    THEN Raise("KeyError", PyStr("outputs"), PyNone)
    ELSE Raise("JSONDecodeError", PyStr("bytes_data"), PyNone)

\* One turn of the loop for the line raw, bytes_data being data.
__text_chat_stream_generator(data, raw) ==
    IF raw = ","
    THEN IF palm_chunk(data).kind = "raise"
         THEN \* except: return
              [yielded |-> <<>>, outcome |-> StopIteration]
         ELSE [yielded |-> <<palm_chunk(data).value>>, outcome |-> Running("line")]
    ELSE [yielded |-> <<>>, outcome |-> Running("line")]

\* The code after the loop.
__text_chat_stream_generator_end(data) ==
    IF data = <<>> \/ palm_chunk(drop_last_character(data)).kind = "raise"
    THEN <<>>
    ELSE <<palm_chunk(drop_last_character(data)).value>>

\* The first next(): an empty chunk is yielded before any line is read.
PalmStreamStart ==
    /\ Idle
    /\ op' = "GoogleTextApi.__text_chat_stream_generator"
    /\ args' = <<>>
    /\ sent' = <<>>
    /\ replies' = <<>>
    /\ chunks' = <<ChatStreamResponse("", FALSE)>>
    /\ result' = Running("line")
    /\ UNCHANGED <<async, process>>

PalmStreamLine ==
    /\ Reading("GoogleTextApi.__text_chat_stream_generator")
    /\ \E raw \in PalmLines :
          StreamStep(raw,
              __text_chat_stream_generator(bytes_data(replies), raw).yielded,
              __text_chat_stream_generator(bytes_data(replies), raw).outcome,
              FALSE)

\* iter_lines() is exhausted: the code after the loop, whose
\* response.close() is not reached from the except clause.
PalmStreamEnd ==
    /\ Reading("GoogleTextApi.__text_chat_stream_generator")
    /\ chunks' = chunks \o __text_chat_stream_generator_end(bytes_data(replies))
    /\ result' = StopIteration
    /\ sent' = IF \/ bytes_data(replies) = <<>>
                  \/ palm_chunk(drop_last_character(bytes_data(replies))).kind
                        # "raise"
               THEN Append(sent, "response.close()")
               ELSE sent
    /\ UNCHANGED <<op, args, replies, async, process>>

(***************************************************************************)
(* AnthropicApi.__chat_stream_generator.  One step per event of            *)
(* response.get("body"); replies holds the chunks json.loads read from the *)
(* events.                                                                 *)
(***************************************************************************)
\* The chunks of a Bedrock response stream: two text deltas, a delta that
\* is no text, the message_delta that closes a message, and message_stop.
AnthropicChunks ==
    { [type |-> "content_block_delta", delta |-> [type |-> "text_delta", text |-> "Hel"]],
      [type |-> "content_block_delta", delta |-> [type |-> "text_delta", text |-> "lo"]],
      [type |-> "content_block_delta", delta |-> [type |-> "input_json_delta"]],
      [type |-> "message_delta"],
      [type |-> "message_stop"] }

\* What one turn of the loop yields for chunk.
__chat_stream_generator(chunk) ==
    (IF chunk.type = "message_delta"
     THEN <<ChatStreamResponse("", TRUE)>>
     ELSE <<>>)
    \o
    (IF chunk.type = "content_block_delta" /\ chunk.delta.type = "text_delta"
     THEN <<ChatStreamResponse(chunk.delta.text, FALSE)>>
     ELSE <<>>)

AnthropicStreamStart ==
    /\ Call("AnthropicApi.__chat_stream_generator", <<>>, <<>>, <<>>,
            Running("line"))
    /\ UNCHANGED <<async, process>>

AnthropicStreamEvent ==
    /\ Reading("AnthropicApi.__chat_stream_generator")
    /\ \E chunk \in AnthropicChunks :
          StreamStep(chunk, __chat_stream_generator(chunk), Running("line"),
                     FALSE)

\* The event stream is exhausted.
AnthropicStreamEnd ==
    /\ Reading("AnthropicApi.__chat_stream_generator")
    /\ result' = StopIteration
    /\ UNCHANGED <<op, args, sent, replies, chunks, async, process>>

(***************************************************************************)
(* GoogleTextApi.text__chat                                                *)
(***************************************************************************)
\* re.match(pattern, model) for the pattern ^gemini-([a-zA-Z0-9.]+-)?pro$
\* and the models a caller names: "gemini-1.5-pro", "gemini-1.5-flash",
\* "chat-bison".
re_match(model) == model \in {"gemini-pro", "gemini-1.5-pro"}

\* _handle_streaming without the test of the status code.
_handle_streaming_unchecked(model, response) ==
    [sent |-> IF re_match(model) THEN "POST :streamGenerateContent"
              ELSE "POST :serverStreamingPredict",
     result |->
        Return(ResponseType(PyNone, [type |-> "StreamChat", stream |-> Generator(
            IF re_match(model)
            THEN "GoogleTextApi._gemini_chat_stream_generator"
            ELSE "GoogleTextApi.__text_chat_stream_generator")]))]

\* _handle_streaming: the request it sends and what it returns or raises
\* when the vendor answers response.
_handle_streaming(model, response) ==
    [sent |-> IF re_match(model) THEN "POST :streamGenerateContent"
              ELSE "POST :serverStreamingPredict",
     result |->
        IF response.status_code # 200
        THEN ProviderException(PyStr(response.text), PyInt(response.status_code))
        ELSE Return(ResponseType(PyNone, [type |-> "StreamChat", stream |-> Generator(
                 IF re_match(model)
                 THEN "GoogleTextApi._gemini_chat_stream_generator"
                 ELSE "GoogleTextApi.__text_chat_stream_generator")]))]

\* calculate_usage_tokens writes a "usage" entry into the reply.
calculate_usage_tokens(original_response) ==
    DictSet(original_response, "usage", PyStr("usage tokens"))

\* A reply of :predict carrying the text t.
PalmPrediction(t) ==
    PyDict([predictions |-> PyList(<<
        PyDict([candidates |-> PyList(<<PyDict([content |-> PyStr(t)])>>)])>>)])

\* original_response["predictions"][0]["candidates"][0]["content"]
PalmText(original_response) ==
    IF /\ HasKey(original_response, "predictions")
       /\ original_response.v["predictions"].py = "list"
       /\ original_response.v["predictions"].v # <<>>
    THEN Return(original_response.v["predictions"].v[1].v["candidates"].v[1].v["content"])
    ELSE Raise("KeyError", PyStr("predictions"), PyNone)

\* original_response["candidates"][0]["content"]["parts"][0]["text"]
GeminiCandidateText(original_response) ==
    IF HasKey(original_response, "candidates")
    THEN Return(PyStr(GeminiText(original_response)))
    ELSE Raise("KeyError", PyStr("candidates"), PyNone)

\* _handle_non_streaming
_handle_non_streaming(model, response) ==
    [sent |-> IF re_match(model) THEN "POST :generateContent" ELSE "POST :predict",
     result |->
        IF response.body = NotJson
        THEN ProviderException(PyStr("Provider did not return a valid JSON"),
                               PyInt(response.status_code))
        ELSE IF response.body.py = "None"
        THEN Raise("TypeError", PyStr("argument of type NoneType is not iterable"),
                   PyNone)
        ELSE IF HasKey(response.body, "error")
        THEN ProviderException(response.body.v["error"].v["message"],
                               PyInt(response.status_code))
        ELSE LET original_response ==
                     IF re_match(model)
                     THEN calculate_usage_tokens(response.body)
                     ELSE response.body
                 generated_text ==
                     IF re_match(model)
                     THEN GeminiCandidateText(original_response)
                     ELSE PalmText(original_response)
             IN  IF generated_text.kind = "raise"
                 THEN generated_text
                 ELSE Return(ResponseType(original_response,
                        [generated_text |-> generated_text.value]))]

\* The values of available_tools and of tool_results.
Tools == {PyNone, PyList(<<>>), PyList(<<PyDict([name |-> PyStr("get_weather")])>>)}

\* any() that looks at the first element only.
any_first(iterable) == Truthy(iterable[1])

\* any(iterable)
any(iterable) == \E i \in DOMAIN iterable : Truthy(iterable[i])

GoogleChatResponses ==
    { Response(status_code, body) :
        status_code \in {200, 400, 500},
        body \in {NotJson, GeminiError, EmptyDict, GeminiChunk("a"),
                  PalmPrediction("a")} }

\* text__chat: the requests it sends and what it returns or raises.
text__chat(available_tools, tool_results, stream, model, response) ==
    IF any(<<available_tools, tool_results>>)
    THEN [sent |-> <<>>,
          result |-> ProviderException(
              PyStr("This provider does not support the use of tools"), PyNone)]
    ELSE IF stream
    THEN [sent |-> <<_handle_streaming(model, response).sent>>,
          result |-> _handle_streaming(model, response).result]
    ELSE [sent |-> <<_handle_non_streaming(model, response).sent>>,
          result |-> _handle_non_streaming(model, response).result]

GoogleTextChat ==
    /\ \E available_tools \in Tools, tool_results \in Tools, stream \in BOOLEAN,
          model \in {"gemini-1.5-pro", "gemini-1.5-flash", "chat-bison"} :
       \E response \in IF any(<<available_tools, tool_results>>)
                       THEN {Response(200, EmptyDict)}
                       ELSE GoogleChatResponses :
          LET call == text__chat(available_tools, tool_results, stream, model,
                                 response)
          IN  Call("GoogleTextApi.text__chat",
                   [available_tools |-> available_tools,
                    tool_results |-> tool_results,
                    stream |-> stream, model |-> model],
                   call.sent,
                   IF call.sent = <<>> THEN <<>> ELSE <<response>>,
                   call.result)
    /\ UNCHANGED <<async, process>>

(***************************************************************************)
(* GoogleTextApi.text__search                                              *)
(***************************************************************************)
\* The texts a caller passes at most.
MaxTexts == 6

\* The reply of :predict for the embeddings values.
EmbeddingsBody(values) ==
    PyDict([predictions |->
        PyList([i \in DOMAIN values |->
            PyDict([embeddings |-> PyDict([values |-> PyInt(values[i])])])])])

\* text__embeddings: the reply parsed, or the exception.
text__embeddings(response) ==
    IF response.body = NotJson
    THEN ProviderException(PyStr("An error occurred while parsing the response."),
                           PyNone)
    ELSE IF HasKey(response.body, "error")
    THEN ProviderException(response.body.v["error"].v["message"],
                           PyInt(response.status_code))
    ELSE IF ~HasKey(response.body, "predictions")
    THEN Raise("KeyError", PyStr("predictions"), PyNone)
    ELSE Return(ResponseType(response.body,
           [items |-> [i \in DOMAIN response.body.v["predictions"].v |->
              response.body.v["predictions"].v[i].v["embeddings"].v["values"]]]))

\* METRICS[similarity_metric](query_embed, text): a function of the two
\* embeddings; the negated distance of the coordinates is taken.
function_score(query_embed, text) ==
    IF query_embed.v >= text.v THEN text.v - query_embed.v
    ELSE query_embed.v - text.v

InfosSearchDataClass(document, score) ==
    [object |-> "search_result", document |-> document, score |-> score]

\* The list with item put after the last element whose score is not lower:
\* one step of a stable sort by score, highest first.
RECURSIVE insert_sorted(_, _)
insert_sorted(sorted_items, item) ==
    IF sorted_items = <<>> THEN <<item>>
    ELSE IF sorted_items[Len(sorted_items)].score >= item.score
         THEN Append(sorted_items, item)
         ELSE Append(insert_sorted(SubSeq(sorted_items, 1, Len(sorted_items) - 1),
                                   item),
                     sorted_items[Len(sorted_items)])

RECURSIVE sorted(_, _)

\* The items 1..n kept in the order they were built in.
sorted_not(items, n) == SubSeq(items, 1, n)

\* sorted(items, key=lambda x: x.score, reverse=True) of the items 1..n
sorted(items, n) ==
    IF n = 0 THEN <<>> ELSE insert_sorted(sorted(items, n - 1), items[n])

\* text__search once len(texts) <= 5 holds: the two embedding calls and
\* what follows them.
text__search_embedded(texts_response, query_response) ==
    LET texts_embed_response == text__embeddings(texts_response)
        query_embed_response == text__embeddings(query_response)
    IN  IF texts_embed_response.kind = "raise" THEN texts_embed_response
        ELSE IF query_embed_response.kind = "raise" THEN query_embed_response
        ELSE LET texts_embed ==
                     texts_embed_response.value.standardized_response.items
                 query_predictions ==
                     query_embed_response.value.original_response.v["predictions"].v
             IN  IF query_predictions = <<>>
                 THEN Raise("IndexError", PyStr("0"), PyNone)
                 ELSE LET query_embed ==
                              query_predictions[1].v["embeddings"].v["values"]
                          items ==
                              [index \in DOMAIN texts_embed |->
                                  InfosSearchDataClass(index - 1,
                                      function_score(query_embed, texts_embed[index]))]
                      IN  Return(ResponseType(
                              PyDict([texts_embeddings |->
                                          texts_embed_response.value.original_response,
                                      embeddings_query |->
                                          query_embed_response.value.original_response]),
                              [items |-> sorted(items, Len(items))]))

\* The replies to the embedding request for n texts: one prediction per
\* text, one prediction short, an error, or no JSON.
TextsEmbeddingResponses(n) ==
    { Response(200, EmbeddingsBody(values)) :
        \* a vector is kept as its one coordinate, 1 or 2
        values \in [1..n -> {1, 2}] \cup
                   (IF n > 0 THEN {[i \in 1..(n - 1) |-> 1]} ELSE {}) }
    \cup {Response(200, NotJson), Response(400, GeminiError)}

\* A limit of six texts.
more_than_six(n) == n > 6

\* len(texts) > 5
more_than_five(n) == n > 5

\* text__search for a list of n texts.
GoogleTextSearch ==
    /\ \E n \in 0..MaxTexts :
          IF more_than_five(n)
          THEN Call("GoogleTextApi.text__search", [texts |-> n], <<>>, <<>>,
                    ProviderException(
                        PyStr("Google does not support search in more than 5 items."),
                        PyNone))
          ELSE \E texts_response \in TextsEmbeddingResponses(n),
                  query_response \in {Response(200, EmbeddingsBody(<<2>>)),
                                      Response(400, GeminiError)} :
                  Call("GoogleTextApi.text__search", [texts |-> n],
                       IF text__embeddings(texts_response).kind = "raise"
                       THEN <<"POST :predict">>
                       ELSE <<"POST :predict", "POST :predict">>,
                       IF text__embeddings(texts_response).kind = "raise"
                       THEN <<texts_response>>
                       ELSE <<texts_response, query_response>>,
                       text__search_embedded(texts_response, query_response))
    /\ UNCHANGED <<async, process>>

(***************************************************************************)
(* The Python process: the module attribute openai.api_key and the adapter *)
(* objects built in it.                                                    *)
(***************************************************************************)
\* instances with the object bound to name replaced by object.
Bind(name, object) ==
    { i \in instances : i.name # name } \cup {object}

\* OpenaiApi.__init__ with api_keys = {"api_key": api_key, "org_key": ...}:
\* the attributes of the object that carry the key.
OpenaiApi(name, api_key) ==
    [name |-> name,
     class |-> "OpenaiApi",
     api_key |-> api_key,
     headers |-> [Authorization |-> "Bearer " \o api_key],
     client |-> [api_key |-> api_key]]

OpenaiApiInit ==
    /\ \E name \in {"A", "B"}, api_key \in {"sk-1", "sk-2"} :
          /\ instances' = Bind(name, OpenaiApi(name, api_key))
          /\ openai_api_key' = PyStr(api_key)
          /\ Call("OpenaiApi.__init__", [name |-> name, api_key |-> api_key],
                  <<>>, <<>>, Return(PyNone))
    /\ UNCHANGED async

\* The Authorization of a request made through the object by a carrier.
Authorization(object, carrier) ==
    CASE carrier = "self.headers" -> object.headers.Authorization
      [] carrier = "self.client" -> "Bearer " \o object.client.api_key
      [] carrier = "openai" -> "Bearer " \o openai_api_key.v

\* A request made through an OpenaiApi object by one of the three carriers
\* __init__ sets up: self.headers, self.client, and the openai module, whose
\* functions authenticate with openai.api_key as it is when they are called.
OpenaiApiRequest ==
    /\ \E object \in { i \in instances : i.class = "OpenaiApi" },
          carrier \in {"self.headers", "self.client", "openai"} :
          Call("OpenaiApi.request", [name |-> object.name, carrier |-> carrier],
               <<Authorization(object, carrier)>>, <<>>, Return(PyNone))
    /\ UNCHANGED <<async, process>>

\* LLMEngine.__init__; application_name is None when the caller passes none.
LLMEngine(name, application_name) ==
    [name |-> name,
     class |-> "LLMEngine",
     application_name_given |-> application_name # PyNone,
     application_name |->
         IF application_name = PyNone
         THEN \* the default: uuid.uuid4() is evaluated when the def statement
              \* of __init__ runs, once for the process
              "uuid4-of-def-time"
         ELSE str(application_name).v]

LLMEngineInit ==
    /\ \E name \in {"E1", "E2"},
          application_name \in {PyNone, PyStr("app-1"), PyStr("app-2")} :
          /\ instances' = Bind(name, LLMEngine(name, application_name))
          /\ Call("LLMEngine.__init__",
                  [name |-> name, application_name |-> application_name],
                  <<>>, <<>>, Return(PyNone))
    /\ UNCHANGED <<async, openai_api_key>>

(***************************************************************************)
(* Functions that build a value from their arguments alone.  Each          *)
(* behaviour of SpecPure applies one of them to one input: their actions   *)
(* are the first call of a behaviour (op = "none").                        *)
(***************************************************************************)
\* The messages of one list, and the content items of one message, at most.
MaxMessages == 2

MaxContent == 2

\* Sequences over S of length at most n.
SeqsUpTo(S, n) == UNION { [1..k -> S] : k \in 0..n }

(***************************************************************************)
(* AnthropicApi.__format_anthropic_messages                                *)
(***************************************************************************)
\* The content items of a message: a text, an image at a URL that answers
\* with bytes, an image at a URL that answers with an empty body, and an
\* image given in base64.
ContentItems ==
    { [type |-> "text", content |-> [text |-> "hello"]],
      [type |-> "media_url", content |-> [media_url |-> "http://img"]],
      [type |-> "media_url", content |-> [media_url |-> "http://empty"]],
      [type |-> "media_base64", content |-> [media_base64 |-> "aW1hZ2U="]] }

ChatMessages ==
    { [role |-> role, content |-> content] :
        role \in {"user", "assistant"},
        content \in SeqsUpTo(ContentItems, MaxContent) }

\* base64.b64encode(httpx.get(media_url).content).decode("utf-8")
media_data(media_url) == IF media_url = "http://img" THEN "aW1n" ELSE ""

image_block(data) ==
    [type |-> "image",
     source |-> [type |-> "base64", media_type |-> "image/jpeg", data |-> data]]

\* What the loop over item["content"] appends for one content item.
transformed_content(content_item) ==
    CASE content_item.type = "text" ->
            <<[type |-> "text", text |-> content_item.content.text]>>
      [] content_item.type = "media_url" ->
            IF media_data(content_item.content.media_url) # ""
            THEN <<image_block(media_data(content_item.content.media_url))>>
            ELSE <<>>
      [] content_item.type = "media_base64" ->
            <<image_block(content_item.content.media_base64)>>
      [] OTHER -> <<>>

RECURSIVE transformed_contents(_)
transformed_contents(content) ==
    IF content = <<>> THEN <<>>
    ELSE transformed_content(Head(content)) \o transformed_contents(Tail(content))

\* One turn of the loop over messages: the message appended, or the
\* exception of item.get("content")[0] on an empty content.
transformed_message(item) ==
    IF item.role = "user"
    THEN Return([role |-> item.role,
                 content |-> PyList(transformed_contents(item.content))])
    ELSE IF item.content = <<>>
    THEN Raise("IndexError", PyStr("list index out of range"), PyNone)
    ELSE Return([role |-> item.role,
                 content |-> IF "text" \in DOMAIN item.content[1].content
                             THEN PyStr(item.content[1].content.text)
                             ELSE PyNone])

RECURSIVE __format_anthropic_messages(_)
__format_anthropic_messages(messages) ==
    IF messages = <<>> THEN Return(<<>>)
    ELSE LET before ==
                 __format_anthropic_messages(SubSeq(messages, 1, Len(messages) - 1))
             last == transformed_message(messages[Len(messages)])
         IN  IF before.kind = "raise" THEN before
             ELSE IF last.kind = "raise" THEN last
             ELSE Return(Append(before.value, last.value))

AnthropicFormatMessages ==
    /\ op = "none"
    /\ \E messages \in SeqsUpTo(ChatMessages, MaxMessages) :
          Call("AnthropicApi.__format_anthropic_messages",
               [messages |-> messages], <<>>, <<>>,
               __format_anthropic_messages(messages))
    /\ UNCHANGED <<async, process>>

(***************************************************************************)
(* The message lists of the chat calls.  Each action is a chat call up to  *)
(* its request: sent holds the payload, and the call waits for the reply.  *)
(***************************************************************************)
\* The entries of previous_history at most.
MaxHistory == 2

\* The entries of a history: questions of the user, answers of the model.
Histories ==
    SeqsUpTo({ [role |-> role, message |-> message] :
                 role \in {"user", "assistant"}, message \in {"one", "two"} },
             MaxHistory)

\* list.insert(idx, x) with idx counted from 0, always at the front.
list_insert_front(list, idx, x) == <<x>> \o list

\* list.insert(idx, x) with idx counted from 0; an idx past the end appends.
list_insert(list, idx, x) ==
    IF idx >= Len(list)
    THEN Append(list, x)
    ELSE SubSeq(list, 1, idx) \o <<x>> \o SubSeq(list, idx + 1, Len(list))

\* for idx, message in enumerate(history): messages.insert(idx, item of
\* message), for the items from position idx + 1 on.
RECURSIVE insert_enumerated(_, _, _)
insert_enumerated(messages, items, idx) ==
    IF idx >= Len(items) THEN messages
    ELSE insert_enumerated(list_insert(messages, idx, items[idx + 1]), items, idx + 1)

\* role = message.get("role"); if role == "assistant": role = renamed
role_of(message, renamed) ==
    IF message.role = "assistant" THEN renamed ELSE message.role

\* AnthropicApi.text__chat: the messages of the request body.
AnthropicChatMessages(text, previous_history) ==
    insert_enumerated(
        <<[role |-> "user", content |-> text]>>,
        [i \in DOMAIN previous_history |->
            [role |-> previous_history[i].role,
             content |-> previous_history[i].message]],
        0)

\* One message of the two shapes of the PaLM payload.
palm_message(author, content, stream) ==
    IF ~stream
    THEN [author |-> author, content |-> content]
    ELSE [struct_val |-> [author |-> [string_val |-> author],
                          content |-> [string_val |-> content]]]

__text_chat_prepare_payload(user_message, history, stream) ==
    LET messages ==
            insert_enumerated(
                <<palm_message("user", user_message, stream)>>,
                [i \in DOMAIN history |->
                    palm_message(role_of(history[i], "bot"), history[i].message,
                                 stream)],
                0)
    IN  IF ~stream
        THEN [instances |-> <<[messages |-> messages]>>]
        ELSE [inputs |-> <<[struct_val |-> [messages |-> [list_val |-> messages]]]>>]

_gemini_pro_chat_prepare_payload(user_message, history) ==
    [contents |->
        Append([i \in DOMAIN history |->
                   [role |-> role_of(history[i], "model"),
                    parts |-> <<[text |-> history[i].message]>>]],
               [role |-> "user", parts |-> <<[text |-> user_message]>>])]

\* TenstorrentTextApi.text__chat: the messages of the payload.
TenstorrentChatMessages(text, chatbot_global_action, previous_history) ==
    LET messages ==
            [i \in DOMAIN previous_history |->
                [role |-> previous_history[i].role,
                 content |-> previous_history[i].message]]
            \o (IF text # "" THEN <<[role |-> "user", content |-> text]>> ELSE <<>>)
    IN  IF Truthy(chatbot_global_action)
        THEN list_insert(messages, 0,
                         [role |-> "system", content |-> chatbot_global_action.v])
        ELSE messages

\* The arguments of a chat call.
ChatArguments ==
    { [text |-> text, previous_history |-> previous_history,
       chatbot_global_action |-> chatbot_global_action, stream |-> stream] :
        text \in {"", "hi"}, previous_history \in Histories,
        chatbot_global_action \in {PyNone, PyStr("be brief")},
        stream \in BOOLEAN }

AnthropicChatRequest ==
    /\ op = "none"
    /\ \E a \in ChatArguments :
          Call("AnthropicApi.text__chat", a,
               <<[messages |-> AnthropicChatMessages(a.text, a.previous_history)]>>,
               <<>>, Running("reply"))
    /\ UNCHANGED <<async, process>>

PalmChatRequest ==
    /\ op = "none"
    /\ \E a \in ChatArguments :
          Call("GoogleTextApi.__text_chat_prepare_payload", a,
               <<__text_chat_prepare_payload(a.text, a.previous_history, a.stream)>>,
               <<>>, Running("reply"))
    /\ UNCHANGED <<async, process>>

GeminiChatRequest ==
    /\ op = "none"
    /\ \E a \in ChatArguments :
          Call("GoogleTextApi._gemini_pro_chat_prepare_payload", a,
               <<_gemini_pro_chat_prepare_payload(a.text, a.previous_history)>>,
               <<>>, Running("reply"))
    /\ UNCHANGED <<async, process>>

TenstorrentChatRequest ==
    /\ op = "none"
    /\ \E a \in ChatArguments :
          Call("TenstorrentTextApi.text__chat", a,
               <<[messages |->
                     TenstorrentChatMessages(a.text, a.chatbot_global_action,
                                             a.previous_history)]>>,
               <<>>, Running("reply"))
    /\ UNCHANGED <<async, process>>

(***************************************************************************)
(* Base64Api._extract_item_lignes.  The fields of the vendor are kept as   *)
(* the sequence data.items() iterates over; the key "lineItem<i><suffix>"  *)
(* is the record of its line item i and its suffix.                        *)
(***************************************************************************)
\* The line items of one reply at most.
MaxItems == 2

\* A text that starts with the number n.
NumberText(n, rest) == [py |-> "str", number |-> n, rest |-> rest]

\* What the vendor read for a field of line item i: each value tells its
\* line item and its field.
LineItemValue(i, suffix) ==
    CASE suffix = "Description" -> [py |-> "str", description |-> i]
      [] suffix = "Quantity" -> NumberText(i, " pcs")
      [] suffix = "UnitPrice" -> NumberText(10 + i, "")
      [] suffix = "LineTotal" -> NumberText(20 + i, "")

\* The fields of a reply whose line item i has the suffixes present[i].
RECURSIVE LineItemFields(_)
LineItemFields(present) ==
    IF present = <<>> THEN <<>>
    ELSE LET i == Len(present)
             suffixes ==
                 SelectSeq(<<"Description", "Quantity", "UnitPrice", "LineTotal">>,
                           LAMBDA suffix : suffix \in present[i])
         IN  LineItemFields(SubSeq(present, 1, i - 1)) \o
             [k \in DOMAIN suffixes |->
                 [key |-> [prefix |-> "lineItem", item |-> i, suffix |-> suffixes[k]],
                  value |-> [value |-> LineItemValue(i, suffixes[k])]]]

\* [value["value"] for key, value in data.items()
\*  if key.startswith("lineItem") and key.endswith(suffix)]
items_ending(data, suffix) ==
    LET kept == SelectSeq(data, LAMBDA field :
                    field.key.prefix = "lineItem" /\ field.key.suffix = suffix)
    IN  [k \in DOMAIN kept |-> kept[k].value.value]

\* Element k of a list zip_longest fills with None.
zip_longest(list, k) == IF k <= Len(list) THEN list[k] ELSE PyNone

\* The first number in a text, as a text; None for None.
retreive_first_number_from_string(string) ==
    IF string = PyNone THEN PyNone ELSE NumberText(string.number, "")

\* The float a text of a number stands for; None for None.
convert_string_to_number(string) ==
    IF string = PyNone \/ string.rest # "" THEN PyNone
    ELSE [py |-> "float", v |-> string.number]

_extract_item_lignes(data) ==
    LET items_description == items_ending(data, "Description")
        items_quantity == items_ending(data, "Quantity")
        items_unit_price == items_ending(data, "UnitPrice")
        items_total_cost == items_ending(data, "LineTotal")
        longest == CHOOSE n \in 0..Len(data) :
                       /\ n \in {Len(items_description), Len(items_quantity),
                                 Len(items_unit_price), Len(items_total_cost)}
                       /\ \A l \in {items_description, items_quantity,
                                    items_unit_price, items_total_cost} : Len(l) <= n
    IN  [k \in 1..longest |->
            [description |-> IF zip_longest(items_description, k) # PyNone
                             THEN zip_longest(items_description, k)
                             ELSE PyStr(""),
             quantity |-> convert_string_to_number(
                              retreive_first_number_from_string(
                                  zip_longest(items_quantity, k))),
             amount |-> convert_string_to_number(zip_longest(items_total_cost, k)),
             unit_price |-> convert_string_to_number(
                                zip_longest(items_unit_price, k))]]

Base64ExtractItemLignes ==
    /\ op = "none"
    /\ \E present \in SeqsUpTo(SUBSET {"Description", "Quantity", "UnitPrice",
                                       "LineTotal"} \ {{}}, MaxItems) :
          Call("Base64Api._extract_item_lignes", [present |-> present],
               <<>>, <<>>, Return(_extract_item_lignes(LineItemFields(present))))
    /\ UNCHANGED <<async, process>>

Init ==
    /\ op = "none"
    /\ args = <<>>
    /\ sent = <<>>
    /\ replies = <<>>
    /\ result = [kind |-> "none"]
    /\ chunks = <<>>
    /\ webhook = <<>>
    /\ uuids = {}
    /\ launched = {}
    /\ openai_api_key = PyNone
    /\ instances = {}

Next ==
    \/ Base64GetResponse
    \/ Base64ReceiptParser
    \/ Base64InvoiceParser
    \/ Base64IdentityParser
    \/ ReplicateLaunch
    \/ ReplicateFirstGet
    \/ ReplicatePoll
    \/ GoogleGeminiProGeneration
    \/ TenstorrentCall
    \/ LLMEngineExecuteCompletion
    \/ LLMEngineLogoDetection
    \/ AnthropicCall
    \/ TenstorrentChat
    \/ LinkupCall
    \/ XAiPromptOptimization

Spec == Init /\ [][Next]_vars

\* The async job of Base64Api and its webhook.
SpecAsync ==
    /\ Init
    /\ [][
          \/ Base64LaunchJob
          \/ Base64GetJobResult
      ]_vars

\* The calls of GoogleTextApi.
SpecGoogle ==
    /\ Init
    /\ [][
          \/ GoogleTextChat
          \/ GoogleTextSearch
      ]_vars

\* The consumers of the stream generators.
SpecStream ==
    /\ Init
    /\ [][
          \/ ReplicateStreamStart
          \/ ReplicateStreamLine
          \/ ReplicateStreamEnd
          \/ GeminiStreamStart
          \/ GeminiStreamLine
          \/ GeminiStreamEnd
          \/ PalmStreamStart
          \/ PalmStreamLine
          \/ PalmStreamEnd
          \/ AnthropicStreamStart
          \/ AnthropicStreamEvent
          \/ AnthropicStreamEnd
      ]_vars

\* The adapter objects of one process.
SpecProcess ==
    /\ Init
    /\ [][
          \/ OpenaiApiInit
          \/ OpenaiApiRequest
          \/ LLMEngineInit
      ]_vars

\* One non-stream call of ReplicateApi.__get_response.  The call blocks on
\* each request and issues the next one as soon as the reply is there, so a
\* request the code is about to make is made.
SpecPolling ==
    /\ Init
    /\ [][ReplicateLaunch \/ ReplicateFirstGet \/ ReplicatePoll]_vars
    /\ WF_vars(ReplicateFirstGet)
    /\ WF_vars(ReplicatePoll)

\* The payloads of the chat calls.
SpecHistory ==
    /\ Init
    /\ [][
          \/ AnthropicChatRequest
          \/ PalmChatRequest
          \/ GeminiChatRequest
          \/ TenstorrentChatRequest
      ]_vars

\* The functions applied to one input.
SpecPure ==
    /\ Init
    /\ [][
          \/ AnthropicFormatMessages
          \/ Base64ExtractItemLignes
      ]_vars

(***************************************************************************)
(* The properties.                                                         *)
(***************************************************************************)
\* C1: Base64Api._get_response raises ProviderException with the reply's
\* status code when the status is >= 400 or the body is not JSON, and
\* returns the parsed body otherwise.
C1_GetResponseRaisesOrReturns ==
    op = "Base64Api._get_response" =>
        LET response == replies[1]
        IN  IF response.status_code >= 400 \/ response.body = NotJson
            THEN /\ result.kind = "raise"
                 /\ result.exc = "ProviderException"
                 /\ result.code = PyInt(response.status_code)
            ELSE result = Return(response.body)

\* An error reply without a "message" key went through _get_response.
C1_Witness ==
    /\ op = "Base64Api._get_response"
    /\ replies[1].status_code >= 400
    /\ replies[1].body = OtherBody
    /\ result.kind = "raise"

\* C2: in ReplicateApi.__get_response every reply that is not JSON or has
\* not the expected status (201 for the launch, 200 for a GET) makes the
\* call raise ProviderException with the reply's status code.
C2_ReplicateBadReplyRaisesProviderException ==
    (op = "ReplicateApi.__get_response" /\ Len(replies) >= 1) =>
        LET response == replies[Len(replies)]
            expected == IF Len(replies) = 1 THEN 201 ELSE 200
        IN  (response.body = NotJson \/ response.status_code # expected) =>
                /\ result.kind = "raise"
                /\ result.exc = "ProviderException"
                /\ result.code = PyInt(response.status_code)

\* C3: _gemini_pro_generation raises ProviderException with the HTTP status
\* code when an element of the streamed reply contains "error".
C3_GeminiErrorRaisesProviderException ==
    (/\ op = "GoogleTextApi._gemini_pro_generation"
     /\ replies[1].body.py = "list"
     /\ \E i \in DOMAIN replies[1].body.v : HasKey(replies[1].body.v[i], "error")) =>
        /\ result.kind = "raise"
        /\ result.exc = "ProviderException"
        /\ result.code = PyInt(replies[1].status_code)

\* The five text features of Tenstorrent.
TenstorrentFeatureOps ==
    { "TenstorrentTextApi." \o feature : feature \in DOMAIN TenstorrentFeatures }

\* C4: a Tenstorrent text feature raises ProviderException, and nothing
\* else, when the request fails in transport, the status is not 2xx, the
\* body is not JSON or the JSON body has a "message" key.
C4_TenstorrentFailureRaisesProviderException ==
    (/\ op \in TenstorrentFeatureOps
     /\ \/ replies = <<>>
        \/ replies[1].status_code < 200
        \/ replies[1].status_code >= 300
        \/ replies[1].body = NotJson
        \/ HasKey(replies[1].body, "message")) =>
        /\ result.kind = "raise"
        /\ result.exc = "ProviderException"

\* The contents that are texts but not JSON.
InvalidJsonContents == {PyStr("Sorry, I cannot help"), PyStr("")}

\* The contents that are JSON objects, and the classes they satisfy.
AcceptedContents ==
    [LogoDetectionDataClass |-> {PyStr("{\"items\": []}")},
     SummarizeDataClass |-> {PyStr("{\"result\": \"short\"}")}]

FileOps ==
    {"Base64Api.ocr__receipt_parser", "Base64Api.ocr__invoice_parser",
     "Base64Api.ocr__identity_parser", "LLMEngine.logo_detection"}

\* C6: a file-taking subfeature called with a file that does not exist
\* raises ProviderException (or AttributeError) and no other exception.
C6_InvalidFileRaisesProviderException ==
    (op \in FileOps /\ OpenFails(args.file)) =>
        /\ result.kind = "raise"
        /\ result.exc \in {"ProviderException", "AttributeError"}

\* The adapter methods a caller reaches.
AdapterOps ==
    FileOps \cup TenstorrentFeatureOps \cup
    {"AnthropicApi.text__chat", "AnthropicApi.text__summarize",
     "AnthropicApi.multimodal__chat", "TenstorrentTextApi.text__chat",
     "LinkupSource.text__question_answer", "XAiTextApi.text__prompt_optimization"}

\* C7: every adapter call that returns, returns a ResponseType whose
\* original_response and standardized_response are both not None.
C7_ReturnsCompleteResponseType ==
    (op \in AdapterOps /\ result.kind = "return") =>
        /\ result.value.type = "ResponseType"
        /\ result.value.original_response # PyNone
        /\ result.value.standardized_response # PyNone

AgreeExcept(a, b, K) ==
    /\ DOMAIN a.v \ K = DOMAIN b.v \ K
    /\ \A k \in DOMAIN a.v \ K : a.v[k] = b.v[k]

Absent(fields, key) == ~HasKey(fields, key) \/ ~HasKey(fields.v[key], "value")

\* The standardized fields of a receipt and of an identity document, each
\* with the vendor field it is read from.
ReceiptFieldMap ==
    {<<"invoice_number", "receiptNo">>, <<"time", "time">>,
     <<"merchant_name", "companyName">>, <<"currency", "currency">>}

InvoiceFieldMap ==
    {<<"invoice_number", "invoiceNumber">>, <<"merchant_name", "companyName">>,
     <<"currency", "currency">>}

IdentityFieldMap ==
    {<<"last_name", "familyName">>, <<"age", "age">>,
     <<"document_id", "documentNumber">>}

\* The reply is a 200 holding one document with a "fields" dict.
HasFields(response) ==
    /\ response.status_code = 200
    /\ response.body.py = "list"
    /\ response.body.v # <<>>
    /\ HasKey(response.body.v[1], "fields")

\* C9: in Base64 receipt, invoice and identity parsing a standardized field
\* whose vendor field is absent, or has no "value", is None, and the parse
\* does not raise.
C9_AbsentFieldsAreNone ==
    /\ (op = "Base64Api.ocr__invoice_parser" /\ Len(replies) = 1
        /\ HasFields(replies[1])) =>
           /\ result.kind = "return"
           /\ \A m \in InvoiceFieldMap :
                 Absent(replies[1].body.v[1].v["fields"], m[2]) =>
                     result.value.standardized_response.extracted_data[1][m[1]]
                         = PyNone
    /\ (op = "Base64Api.ocr__receipt_parser" /\ Len(replies) = 1
        /\ HasFields(replies[1])) =>
           /\ result.kind = "return"
           /\ \A m \in ReceiptFieldMap :
                 Absent(replies[1].body.v[1].v["fields"], m[2]) =>
                     result.value.standardized_response.extracted_data[1][m[1]] = PyNone
    /\ (op = "Base64Api.ocr__identity_parser" /\ Len(replies) = 1
        /\ HasFields(replies[1]) /\ HasKey(replies[1].body.v[1], "features")) =>
           /\ result.kind = "return"
           /\ \A m \in IdentityFieldMap :
                 Absent(replies[1].body.v[1].v["fields"], m[2]) =>
                     result.value.standardized_response.extracted_data[1][m[1]] = PyNone

\* C10: get_job_result answers a pending response, and raises nothing,
\* when the webhook answers 200 and holds no entry for the job id.
C10_UnknownJobIsPending ==
    (/\ op = "Base64Api.ocr__anonymization_async__get_job_result"
     /\ replies[1].status = 200
     /\ \A i \in DOMAIN webhook : ~Mentions(webhook[i], args.provider_job_id)) =>
        result = Return(AsyncPendingResponseType(args.provider_job_id))

\* C11: a get_job_result(J) that returns a finished result returns
\* provider_job_id J and, as original_response, the vendor reply the launch
\* that returned J obtained, never the reply of another job.
C11_FinishedResultIsTheLaunchedReply ==
    (/\ op = "Base64Api.ocr__anonymization_async__get_job_result"
     /\ result.kind = "return"
     /\ result.value.type = "AsyncResponseType") =>
        /\ result.value.provider_job_id = args.provider_job_id
        /\ \E l \in launched : l.job_id = args.provider_job_id
        /\ \A l \in launched :
              l.job_id = args.provider_job_id =>
                  l.original_response = result.value.original_response

\* Two jobs with different replies were launched and stored, and the result
\* of the first was fetched after the second was launched.
C11_Witness ==
    /\ op = "Base64Api.ocr__anonymization_async__get_job_result"
    /\ result.kind = "return"
    /\ result.value.type = "AsyncResponseType"
    /\ Len(webhook) = 2
    /\ webhook[1].original_response # webhook[2].original_response
    /\ args.provider_job_id = webhook[1].job_id

\* C12: launch_job raises ProviderException when the webhook answers the
\* storing request with a non-success status, and a job id is returned only
\* when its entry was stored.
C12_UnstoredLaunchRaises ==
    op = "Base64Api.ocr__anonymization_async__launch_job" =>
        /\ (Len(replies) = 2 /\ replies[2].status_code >= 400) =>
              (result.kind = "raise" /\ result.exc = "ProviderException")
        /\ result.kind = "return" =>
              \E i \in DOMAIN webhook :
                  webhook[i].job_id = result.value.provider_job_id

\* The last reply of a call of ReplicateApi.__get_response is a failure: its
\* body is not JSON, or its status is not the expected one (201 for the
\* launch, 200 for a GET).
ReplicateFailureReply ==
    /\ op = "ReplicateApi.__get_response"
    /\ \/ replies[Len(replies)].body = NotJson
       \/ replies[Len(replies)].status_code # (IF Len(sent) = 1 THEN 201 ELSE 200)

\* C13: one call of ReplicateApi.__get_response sends the launch POST exactly
\* once, and after a failure reply the call has raised and sends no further
\* request.
C13_NoRetries ==
    /\ [](op = "ReplicateApi.__get_response" =>
            /\ sent[1] = "POST predictions"
            /\ \A i \in 2..Len(sent) : sent[i] # "POST predictions"
            /\ ReplicateFailureReply => result.kind = "raise")
    /\ [][ReplicateFailureReply => ~(op' = op /\ Len(sent') > Len(sent))]_vars

\* A poll was answered with a body that is not JSON and the call raised.
C13_Witness ==
    /\ op = "ReplicateApi.__get_response"
    /\ Len(sent) >= 3
    /\ replies[2].body = NotJson
    /\ result.kind = "raise"

\* C14: no state is shared between adapter objects: every request made
\* through an OpenaiApi object carries the api key that object was built
\* with, whatever other objects were built meanwhile, and two LLMEngine
\* objects built without application_name do not hold one application_name.
C14_NoSharedState ==
    /\ op = "OpenaiApi.request" =>
          \A object \in instances :
              object.name = args.name =>
                  sent[1] = "Bearer " \o object.api_key
    /\ \A e1 \in instances, e2 \in instances :
          (/\ e1.class = "LLMEngine" /\ e2.class = "LLMEngine"
           /\ e1.name # e2.name
           /\ ~e1.application_name_given /\ ~e2.application_name_given) =>
              e1.application_name # e2.application_name

\* The lines read before the line "event: done".
BeforeDone ==
    { i \in DOMAIN replies :
        \A j \in DOMAIN replies : replies[j] = "event: done" => i < j }

\* C15: in the Replicate chat stream every line that starts with "data: "
\* and arrives before the line "event: done" has yielded exactly one chunk,
\* and no other line has yielded any.
C15_OneChunkPerDataLine ==
    op = "ReplicateApi.__get_stream_response" =>
        Len(chunks) = Cardinality({ i \in BeforeDone : startswith_data(replies[i]) })

\* A chunk of the Google stream was malformed: a data line of the Gemini
\* stream that is not JSON or has no candidates, or an object of the PaLM
\* stream, closed by ",", that is not JSON or has no outputs.
GoogleMalformedChunk ==
    \/ /\ op = "GoogleTextApi._gemini_chat_stream_generator"
       /\ \E i \in DOMAIN replies :
             replies[i] \in {"data: <html>", "data: {error: quota}"}
    \/ /\ op = "GoogleTextApi.__text_chat_stream_generator"
       /\ \E i \in DOMAIN replies :
             /\ replies[i] = ","
             /\ palm_chunk(bytes_data(SubSeq(replies, 1, i - 1))).kind = "raise"

\* C16: after a malformed chunk the consumer of a Google chat stream
\* receives a ProviderException; the stream does not end as a complete
\* answer does.
C16_MalformedChunkRaises ==
    GoogleMalformedChunk =>
        (result.kind = "raise" /\ result.exc = "ProviderException")

\* C17: text__chat with stream=True raises ProviderException with the
\* status code when the vendor answers the streaming request with a status
\* other than 200, no StreamChat being returned and no chunk yielded; the
\* generator it returns otherwise is the one of the endpoint the request
\* was sent to.
C17_StreamingStatusAndGenerator ==
    (op = "GoogleTextApi.text__chat" /\ args.stream /\ sent # <<>>) =>
        /\ replies[1].status_code # 200 =>
              /\ result = ProviderException(PyStr(replies[1].text),
                                            PyInt(replies[1].status_code))
              /\ chunks = <<>>
        /\ replies[1].status_code = 200 =>
              /\ result.kind = "return"
              /\ result.value.standardized_response.type = "StreamChat"
              /\ sent[1] = "POST :streamGenerateContent" <=>
                    result.value.standardized_response.stream =
                        Generator("GoogleTextApi._gemini_chat_stream_generator")
              /\ sent[1] = "POST :serverStreamingPredict" <=>
                    result.value.standardized_response.stream =
                        Generator("GoogleTextApi.__text_chat_stream_generator")

\* The streaming request of a Gemini model was answered with 500.
C17_Witness ==
    /\ op = "GoogleTextApi.text__chat"
    /\ args.stream
    /\ sent = <<"POST :streamGenerateContent">>
    /\ replies[1].status_code = 500
    /\ result.kind = "raise"

\* Both embedding calls of a text__search returned, the first with one
\* prediction for each of the texts.
SearchEmbedded ==
    /\ op = "GoogleTextApi.text__search"
    /\ args.texts <= 5
    /\ Len(replies) = 2
    /\ text__embeddings(replies[1]).kind = "return"
    /\ text__embeddings(replies[2]).kind = "return"
    /\ Len(replies[1].body.v["predictions"].v) = args.texts

C19_MoreThanFiveTextsRaises ==
    op = "GoogleTextApi.text__search" =>
        LET too_many == ProviderException(
                PyStr("Google does not support search in more than 5 items."),
                PyNone)
        IN  /\ args.texts > 5 => (result = too_many /\ sent = <<>>)
            /\ args.texts <= 5 => (result # too_many /\ sent # <<>>)

\* Six texts were given.
C19_Witness ==
    /\ op = "GoogleTextApi.text__search"
    /\ args.texts = 6
    /\ result.kind = "raise"

\* C20: text__chat raises ProviderException("This provider does not support
\* the use of tools") before any request whenever available_tools or
\* tool_results is not empty, with stream true or false; with both empty the
\* request goes to the streaming endpoint if and only if stream is true.
C20_ToolsRaiseAndStreamRoutes ==
    op = "GoogleTextApi.text__chat" =>
        IF Truthy(args.available_tools) \/ Truthy(args.tool_results)
        THEN /\ result = ProviderException(
                    PyStr("This provider does not support the use of tools"), PyNone)
             /\ sent = <<>>
        ELSE /\ Len(sent) = 1
             /\ args.stream <=>
                   sent[1] \in {"POST :streamGenerateContent",
                                "POST :serverStreamingPredict"}
             /\ ~args.stream <=>
                   sent[1] \in {"POST :generateContent", "POST :predict"}

\* A streaming chat was called with tool_results only.
C20_Witness ==
    /\ op = "GoogleTextApi.text__chat"
    /\ args.stream
    /\ ~Truthy(args.available_tools)
    /\ Truthy(args.tool_results)
    /\ result.kind = "raise"

\* The blocks a content item of the documented shape stands for: one block
\* per item, of type "text" for a text and "image" for a media item.
BlockOf(block, content_item) ==
    IF content_item.type = "text"
    THEN block.type = "text" /\ block.text = content_item.content.text
    ELSE /\ block.type = "image"
         /\ block.source.type = "base64"

\* C21: __format_anthropic_messages answers, for every list of messages, one
\* message per input message, in the same order and with the same role, and
\* the content of every output message is a list of blocks of type "text" or
\* "image" (base64 source), one per content item and in the order of the
\* items.
C21_FormatKeepsMessagesAndShape ==
    op = "AnthropicApi.__format_anthropic_messages" =>
        /\ result.kind = "return"
        /\ Len(result.value) = Len(args.messages)
        /\ \A i \in 1..Len(args.messages) :
             /\ result.value[i].role = args.messages[i].role
             /\ result.value[i].content.py = "list"
             /\ Len(result.value[i].content.v) = Len(args.messages[i].content)
             /\ \A j \in 1..Len(args.messages[i].content) :
                  BlockOf(result.value[i].content.v[j],
                          args.messages[i].content[j])
\* The call is in its polling loop and the latest reply is a JSON 200 that
\* reports a terminal status other than "succeeded".
PollingAFinishedPrediction ==
    /\ op = "ReplicateApi.__get_response"
    /\ result = Running("poll")
    /\ replies[2].status_code = 200
    /\ HasKey(replies[2].body, "status")
    /\ replies[2].body.v["status"] \in {PyStr("failed"), PyStr("canceled")}

\* C22: the polling of __get_response terminates once the vendor reports a
\* terminal status ("succeeded", "failed", "canceled") in JSON 200 replies:
\* no call goes on polling for ever a prediction that every reply, from some
\* point on, reports as failed or canceled.
C22_PollingTerminates == ~<>[]PollingAFinishedPrediction

\* C23: a non-stream __get_response returns a dict only for a prediction
\* whose last observed status is "succeeded": the dict is the body of the
\* most recent GET reply, that reply has the status code 200 and the status
\* "succeeded", and a metrics.predict_time entry has been added to it.
C23_ReturnsOnlySucceeded ==
    (op = "ReplicateApi.__get_response" /\ ~args.stream /\ result.kind = "return") =>
        /\ Len(replies) = 2
        /\ replies[2].status_code = 200
        /\ HasKey(replies[2].body, "status")
        /\ replies[2].body.v["status"] = PyStr("succeeded")
        /\ AgreeExcept(result.value, replies[2].body, {"metrics"})
        /\ HasKey(result.value, "metrics")
        /\ HasKey(result.value.v["metrics"], "predict_time")

\* A call returned the dict of a prediction it polled more than once.
C23_Witness ==
    /\ op = "ReplicateApi.__get_response"
    /\ ~args.stream
    /\ result.kind = "return"
    /\ Len(sent) > 3
    /\ replies[2].body.v["status"] = PyStr("succeeded")
    /\ result.value.v["metrics"].v["predict_time"] = PyInt(2)
\* The generator of Replicate reads one more line in this step.
ReplicateReadsLine ==
    /\ Reading("ReplicateApi.__get_stream_response")
    /\ Len(replies') = Len(replies) + 1

\* The line read before the one this step reads.
LineBefore == IF replies = <<>> THEN "" ELSE replies[Len(replies)]

ErrorChunk == ChatStreamResponse("[ERROR]", TRUE)

\* C24: a "data: " line that immediately follows an "event: error" line is
\* yielded as the chunk with text "[ERROR]" and blocked=True and as nothing
\* else, and a chunk is an error chunk only when the line directly before
\* its "data: " line was "event: error".
C24_ErrorLineIsErrorChunk ==
    [][ReplicateReadsLine =>
         /\ (LineBefore = "event: error" /\ startswith_data(replies'[Len(replies')]))
              => chunks' = Append(chunks, ErrorChunk)
         /\ (chunks' # chunks /\ chunks'[Len(chunks')].blocked)
              => LineBefore = "event: error"]_vars
\* A chat stream generator is suspended in its loop.
StreamGeneratorReading ==
    \/ Reading("ReplicateApi.__get_stream_response")
    \/ Reading("GoogleTextApi.__text_chat_stream_generator")
    \/ Reading("GoogleTextApi._gemini_chat_stream_generator")

\* C25: whenever a chat stream generator finishes, the HTTP response has
\* been closed.  A generator that finishes because iter_lines() is exhausted
\* has read the body to its end, and that is taken as a release of the
\* connection here; every other end needs the call of response.close().
C25_FinishedStreamIsClosed ==
    [][(StreamGeneratorReading /\ result'.kind # "running") =>
         \/ replies' = replies
         \/ \E i \in DOMAIN sent' : sent'[i] = "response.close()"]_vars
\* The characters of the texts of the model.
Characters(text) ==
    CASE text = "Hel" -> <<"H", "e", "l">>
      [] text = "lo" -> <<"l", "o">>
      [] OTHER -> <<>>

\* The concatenation of the texts of a sequence of records with a text.
RECURSIVE Concatenated(_)
Concatenated(records) ==
    IF records = <<>> THEN <<>>
    ELSE Characters(Head(records).text) \o Concatenated(Tail(records))

IsTextDelta(chunk) ==
    chunk.type = "content_block_delta" /\ chunk.delta.type = "text_delta"

\* The stream read was text deltas followed by the closing message_delta.
TextDeltasThenMessageDelta ==
    /\ op = "AnthropicApi.__chat_stream_generator"
    /\ result = StopIteration
    /\ Len(replies) >= 2
    /\ replies[Len(replies)].type = "message_delta"
    /\ \A i \in 1..(Len(replies) - 1) : IsTextDelta(replies[i])

\* C26: a stream made only of content_block_delta text events followed by
\* the normal closing message_delta event yields no chunk with blocked=True,
\* and the texts of the yielded chunks, concatenated in order, are the
\* concatenation of the text_delta texts in arrival order.
C26_TextStreamIsNotBlocked ==
    TextDeltasThenMessageDelta =>
        /\ \A i \in DOMAIN chunks : ~chunks[i].blocked
        /\ Concatenated(chunks) =
             Concatenated([i \in 1..(Len(replies) - 1) |-> replies[i].delta])
\* A chat call has built its payload; for Tenstorrent, with a text that is
\* not empty.
ChatRequestBuilt ==
    /\ op \in {"AnthropicApi.text__chat",
               "GoogleTextApi.__text_chat_prepare_payload",
               "GoogleTextApi._gemini_pro_chat_prepare_payload",
               "TenstorrentTextApi.text__chat"}
    /\ op = "TenstorrentTextApi.text__chat" => args.text # ""

\* The message list of the payload sent, each message read as a role and a
\* text whatever the shape the vendor wants.
MessagesSent ==
    CASE op = "GoogleTextApi.__text_chat_prepare_payload" /\ args.stream ->
            LET list == sent[1].inputs[1].struct_val.messages.list_val
            IN  [i \in DOMAIN list |->
                    [role |-> list[i].struct_val.author.string_val,
                     text |-> list[i].struct_val.content.string_val]]
      [] op = "GoogleTextApi.__text_chat_prepare_payload" /\ ~args.stream ->
            LET list == sent[1].instances[1].messages
            IN  [i \in DOMAIN list |->
                    [role |-> list[i].author, text |-> list[i].content]]
      [] op = "GoogleTextApi._gemini_pro_chat_prepare_payload" ->
            [i \in DOMAIN sent[1].contents |->
                [role |-> sent[1].contents[i].role,
                 text |-> sent[1].contents[i].parts[1].text]]
      [] OTHER ->
            [i \in DOMAIN sent[1].messages |->
                [role |-> sent[1].messages[i].role,
                 text |-> sent[1].messages[i].content]]

\* The role the vendor of the call knows an assistant by.
VendorRole(role) ==
    IF role # "assistant" THEN role
    ELSE CASE op = "GoogleTextApi.__text_chat_prepare_payload" -> "bot"
           [] op = "GoogleTextApi._gemini_pro_chat_prepare_payload" -> "model"
           [] OTHER -> role

\* The entries of previous_history in their order, then the user's message.
HistoryThenUser ==
    Append([i \in DOMAIN args.previous_history |->
               [role |-> VendorRole(args.previous_history[i].role),
                text |-> args.previous_history[i].message]],
           [role |-> "user", text |-> args.text])

\* C27 as stated: the message list sent to the vendor is the entries of
\* previous_history in their original order, roles mapped, followed by the
\* current user message as the last element.
C27_MessagesAreHistoryThenUser ==
    ChatRequestBuilt => MessagesSent = HistoryThenUser

\* C27, amended: the message list sent to the vendor is the entries of
\* previous_history in their original order, roles mapped, followed by the
\* current user message as the last element; the list of Tenstorrent starts
\* with one more message, of role "system" and holding chatbot_global_action,
\* when the caller gives one.
C27_MessagesAreSystemHistoryThenUser ==
    ChatRequestBuilt =>
        MessagesSent =
            (IF /\ op = "TenstorrentTextApi.text__chat"
                /\ Truthy(args.chatbot_global_action)
             THEN <<[role |-> "system", text |-> args.chatbot_global_action.v]>>
             ELSE <<>>)
            \o HistoryThenUser

\* Tenstorrent was sent a system message, two different entries of history
\* and the user's message.
C27_Witness ==
    /\ op = "TenstorrentTextApi.text__chat"
    /\ args.text = "hi"
    /\ Len(args.previous_history) = 2
    /\ args.previous_history[1] # args.previous_history[2]
    /\ Len(MessagesSent) = 4
    /\ MessagesSent[1].role = "system"
\* The item line whose four entries are all taken from line item i of a
\* reply in which that line item has the suffixes in present.
ItemLineOf(i, present) ==
    [description |-> IF "Description" \in present
                     THEN LineItemValue(i, "Description") ELSE PyStr(""),
     quantity |-> IF "Quantity" \in present
                  THEN [py |-> "float", v |-> i] ELSE PyNone,
     amount |-> IF "LineTotal" \in present
                THEN [py |-> "float", v |-> 20 + i] ELSE PyNone,
     unit_price |-> IF "UnitPrice" \in present
                    THEN [py |-> "float", v |-> 10 + i] ELSE PyNone]

\* C28: every item line _extract_item_lignes produces takes its description,
\* quantity, amount and unit price from the same vendor line item, also when
\* some line items lack some of the four fields, and there are as many item
\* lines as vendor line items.
C28_ItemLinesComeFromOneLineItem ==
    (op = "Base64Api._extract_item_lignes" /\ result.kind = "return") =>
        /\ Len(result.value) = Len(args.present)
        /\ \A k \in DOMAIN result.value :
             \E i \in DOMAIN args.present :
                 result.value[k] = ItemLineOf(i, args.present[i])

====
